---- MODULE Spec2Model ----
(***************************************************************************)
(* TrendSpark scheduler core (src/trend_spark_ai/scheduler.py): the        *)
(* execution of a configured job (_execute_configured_job), the lease      *)
(* locks kept in the scheduler_locks table (_acquire_scheduler_lock,       *)
(* _cleanup_expired_locks, _release_scheduler_lock), the job_runs audit    *)
(* rows (_record_job_run) and the failure monitor (_track_job_result).     *)
(*                                                                         *)
(* Executions run on a thread pool; each statement that touches the store  *)
(* or the module-level dictionaries is one step of its execution, and the  *)
(* steps of different executions interleave.  A store transaction          *)
(* (session_scope) sees the committed rows minus its own pending deletes   *)
(* and publishes its deletes and inserts at commit (READ COMMITTED).       *)
(* Time is the wall clock in seconds, advanced by the Tick action.         *)
(* uuid4 values (lock token, correlation id) are taken to be unique: both  *)
(* are represented by the sequence number of the execution.                *)
(***************************************************************************)
EXTENDS Integers, Sequences, FiniteSets

\* ------------------------------------------------------------- bounds
\* Executions started in one behaviour.
MaxExecs == 3
\* Executions in flight at the same time (threads of the pool).
MaxActive == 2
\* The clock advances MaxTicks times, TickSeconds at a time.
MaxTicks == 3
TickSeconds == 300
\* The failure monitor taken alone (SpecFM): results reported in one behaviour,
\* and its clock, which advances MaxFMTicks times, FMTickSeconds at a time.
MaxReports == 4
MaxFMTicks == 2
FMTickSeconds == 900
\* The administration of the configs (SpecCfg): calls in one behaviour, and
\* the largest config id.
MaxAdminOps == 3
MaxConfigId == 4
\* Executions started while the configs are administered (SpecCfg).
MaxCfgExecs == 1
\* The ranking of posts (SpecRank): its clock advances MaxRankTicks times,
\* RankTickSeconds at a time.
MaxRankTicks == 2
MaxAlertJobs == 2
MaxJobs == 2
RankTickSeconds == 1800

\* ---------------------------------------------------- program constants
JOB_FAILURE_THRESHOLD == 3
\* timedelta(minutes=30), in seconds
JOB_FAILURE_ALERT_COOLDOWN == 1800

\* settings (config.py): trending_min_engagement_mix, trend_expire_minutes,
\* and trend_author_scale_min = 0.5, trend_author_scale_max = 2.5 as fractions
TRENDING_MIN_ENGAGEMENT_MIX == 20
TREND_EXPIRE_MINUTES == 60
SCALE_MIN_NUM == 1
SCALE_MIN_DEN == 2
SCALE_MAX_NUM == 5
SCALE_MAX_DEN == 2

JOB_HANDLERS == {"ingest_rank", "gen_replies", "daily_ideas"}

\* A cron expression is the sequence of its whitespace-separated fields; a
\* field is "*", "*/n" or a number.
Any == [kind |-> "any", n |-> 0]
Every(n) == [kind |-> "step", n |-> n]
At(n) == [kind |-> "num", n |-> n]
\* "*/30 * * * *", "*/15 * * * *" and "0 8 * * *" (ideas_time_hour = 8)
CRON_30MIN == <<Every(30), Any, Any, Any, Any>>
CRON_15MIN == <<Every(15), Any, Any, Any, Any>>
CRON_DAILY == <<At(0), At(8), Any, Any, Any>>

\* The rows _ensure_default_configs writes into an empty table.
DefaultConfigs ==
    [c \in {1, 2, 3} |->
        [id |-> c,
         job_id |-> CASE c = 1 -> "ingest_rank" [] c = 2 -> "gen_replies"
                      [] OTHER -> "daily_ideas",
         cron |-> CASE c = 1 -> CRON_30MIN [] c = 2 -> CRON_15MIN
                    [] OTHER -> CRON_DAILY,
         enabled |-> TRUE, concurrency_limit |-> 1, lock_timeout_seconds |-> 300]]

\* The persisted SchedulerConfig rows: the three job kinds of
\* _ensure_default_configs, the second one administered to allow two
\* concurrent executions, the third one paused.
ConfigIds == {1, 2, 3}
InitialConfigs ==
    [c \in ConfigIds |->
        CASE c = 1 -> DefaultConfigs[1]
          [] c = 2 -> [DefaultConfigs[2] EXCEPT !.concurrency_limit = 2,
                                                !.lock_timeout_seconds = 600]
          [] OTHER -> [DefaultConfigs[3] EXCEPT !.enabled = FALSE]]

\* CronTrigger.from_crontab: exactly five fields, each within the range of
\* its position (minute, hour, day, month, day of week); FALSE stands for
\* the ValueError.
FieldRange(i) ==
    CASE i = 1 -> 0 .. 59
      [] i = 2 -> 0 .. 23
      [] i = 3 -> 1 .. 31
      [] i = 4 -> 1 .. 12
      [] OTHER -> 0 .. 6
FieldOk(i, f) ==
    CASE f.kind = "any" -> TRUE
      [] f.kind = "num" -> f.n \in FieldRange(i)
      [] OTHER -> f.n >= 1
from_crontab(cron) == Len(cron) = 5 /\ \A i \in 1 .. 5 : FieldOk(i, cron[i])

\* scheduler.add_job(..., trigger, max_instances=max(1, cfg.concurrency_limit or 1))
job_of(cfg) ==
    [cron |-> cfg.cron,
     max_instances |-> IF cfg.concurrency_limit >= 1 THEN cfg.concurrency_limit ELSE 1]

\* _ensure_default_configs: an empty table is filled with the defaults.
ensure_default_configs(configs) ==
    IF DOMAIN configs = {} THEN DefaultConfigs ELSE configs

\* The loop of refresh_scheduler_jobs over the listed configs and the removal
\* of the jobs of configs that are gone: a disabled config loses its job, an
\* enabled config with a cron that parses gets its job added or replaced, an
\* enabled config whose cron does not parse is skipped (its job, if it has
\* one, stays as it is).
reconcile(configs, jobs) ==
    [c \in {d \in DOMAIN configs :
                /\ configs[d].enabled
                /\ from_crontab(configs[d].cron) \/ d \in DOMAIN jobs} |->
        IF from_crontab(configs[c].cron) THEN job_of(configs[c]) ELSE jobs[c]]

Execs == 1 .. (IF MaxExecs >= MaxReports THEN MaxExecs ELSE MaxReports)
\* Python's None for a config, a token.
NoConfig == [id |-> 0, job_id |-> "", cron |-> << >>, enabled |-> FALSE,
             concurrency_limit |-> 0, lock_timeout_seconds |-> 0]
NoToken == 0
\* Python's None for a datetime.
NoTime == -1

VARIABLES
    clock,                   \* datetime.utcnow(), seconds
    scheduler_configs,       \* table scheduler_configs: id -> row
    scheduler_locks,         \* table scheduler_locks (committed rows)
    job_runs,                \* table job_runs, in the order of the row ids
    job_failure_counts,      \* _job_failure_counts: job kind -> int
    job_failure_last_alert,  \* _job_failure_last_alert: dict, job kind -> time
    notifications,           \* job_alert messages handed to send_telegram_message
    started,                 \* number of executions begun
    pc,                      \* position of each execution
    config,                  \* local: the fetched (expunged) config
    lock_token,              \* local: token (uuid4) of _acquire_scheduler_lock
    lock_now,                \* local: now of _acquire_scheduler_lock
    purged,                  \* transaction: rows deleted, not yet committed
    granted,                 \* local: the count was below the limit
    status,                  \* local: "success" | "error"
    exc,                     \* local: an exception of the handler is propagating
    track_now,               \* local: now of _track_job_result
    outcome,                 \* how the call of each execution ended
    reclaimed,               \* history: tokens of the leases deleted by a purge
    tracked,                 \* history: results in the order the monitor got them
    triggers,                \* jobs "cfg:<id>" registered in the worker's scheduler
    last_op,                 \* history: the last administration call and its result
    posts,                   \* table posts: post key -> row
    cycle,                   \* history: the last call of rank_and_mark (its
                             \* now, cutoff and return value, the posts it
                             \* found trending and unexpired, the posts that
                             \* qualified)
    scored,                  \* history: the last call of compute_scores_for_post
    stats,                   \* history: the last table given to
                             \* _build_author_engagement_stats
    alerted,                 \* posts.last_alerted_at, last_alerted_virality:
                             \* post key -> row part, absent while both are None
    sent,                    \* history: the alert of the last job_ingest_and_rank
    upserts,                 \* table posts as its rows in the order of insertion
                             \* (platform, post_id, like_count), with the last
                             \* call of upsert_post: its data, the row it
                             \* returned (0 for none), the exception it raised
    invoked,                 \* history: the last handler(**params) call, with
                             \* the parameters and growth_profile_id of its config
    collab,                  \* history: the last handler run with its external
                             \* collaborators: those that failed, the work
                             \* there was, whether the handler raised
    jobs                     \* the runs of job_ingest_and_rank that overlap: the
                             \* position and the locals of each, and the
                             \* history of the messages handed to the sender

vars == <<clock, scheduler_configs, scheduler_locks, job_runs, job_failure_counts,
          job_failure_last_alert, notifications, started, pc, config, lock_token,
          lock_now, purged, granted, status, exc, track_now, outcome, reclaimed,
          tracked, triggers, last_op, posts, cycle, scored, stats,
          alerted, sent, upserts, invoked, collab, jobs>>

store == <<scheduler_configs, scheduler_locks, job_runs>>
monitor == <<job_failure_counts, job_failure_last_alert, notifications>>
locals == <<config, lock_token, lock_now, purged, granted, status, exc, track_now>>
history == <<reclaimed, tracked>>
admin == <<triggers, last_op>>
ranking == <<posts, cycle>>
alerting == <<alerted, sent>>
signals == <<scored, stats, alerted, sent, upserts, invoked, collab, jobs>>
\* Everything but the scheduler_configs table and the registered triggers.
execution == <<clock, scheduler_locks, job_runs, monitor, history, started, pc,
               locals, outcome>>

Init ==
    /\ clock = 0
    /\ scheduler_configs = InitialConfigs
    /\ scheduler_locks = {}
    /\ job_runs = << >>
    /\ job_failure_counts = [k \in JOB_HANDLERS |-> 0]
    /\ job_failure_last_alert = [k \in {} |-> 0]
    /\ notifications = {}
    /\ started = 0
    /\ pc = [e \in Execs |-> "idle"]
    /\ config = [e \in Execs |-> NoConfig]
    /\ lock_token = [e \in Execs |-> NoToken]
    /\ lock_now = [e \in Execs |-> 0]
    /\ purged = [e \in Execs |-> {}]
    /\ granted = [e \in Execs |-> FALSE]
    /\ status = [e \in Execs |-> ""]
    /\ exc = [e \in Execs |-> FALSE]
    /\ track_now = [e \in Execs |-> 0]
    /\ outcome = [e \in Execs |-> "pending"]
    /\ reclaimed = {}
    /\ tracked = << >>
    /\ triggers = reconcile(InitialConfigs, << >>)
    /\ last_op = [seq |-> 0, name |-> "build_scheduler", caller |-> "api",
                  config_id |-> 0, job_id |-> "", result |-> "ok"]
    /\ posts = << >>
    /\ cycle = [n |-> 0, now |-> 0, cutoff |-> NoTime, flips |-> 0,
                held |-> {}, qualified |-> {}]
    /\ scored = [applied |-> FALSE,
                 post |-> [like_count |-> 0, repost_count |-> 0, quote_count |-> 0,
                           reply_count |-> 0, view_count |-> 0, age_hours |-> 0],
                 result |-> [raised |-> "", virality |-> 0,
                             velocity |-> [num |-> 0, den |-> 1]]]
    /\ stats = [applied |-> FALSE, rows |-> << >>]
    /\ alerted = << >>
    /\ sent = [n |-> 0, now |-> 0, top |-> {}, candidate |-> {}, full |-> {},
               fallback |-> {}, messages |-> 0, outcome |-> "none"]
    /\ upserts = [n |-> 0, rows |-> << >>, returned |-> 0, raised |-> "",
                  data |-> [platform |-> "", post_id |-> "", like_count |-> -1]]
    /\ invoked = [applied |-> FALSE, parameters |-> << >>, growth_profile_id |-> 0,
                  params |-> << >>]
    /\ collab = [by |-> 0, job_id |-> "", failing |-> {}, drafts_missing |-> FALSE,
                 ideas_today |-> FALSE, raised |-> FALSE]
    /\ jobs = [started |-> 0,
               run |-> [j \in 1 .. MaxJobs |->
                           [pc |-> "idle", now |-> 0, cutoff |-> 0, rows |-> << >>,
                            seen |-> << >>, top |-> {}, candidate |-> {},
                            payload |-> {}, marked |-> {}]],
               emitted |-> << >>]

\* ------------------------------------------------------------ helpers
Max(a, b) == IF a >= b THEN a ELSE b

InFlight == {e \in Execs : pc[e] \notin {"idle", "done"}}

\* Mutant: the comparison with the limit is off by one (active > limit).
LockLimit_OffByOne(cfg) ==
    Max(1, IF cfg.concurrency_limit = 0 THEN 1 ELSE cfg.concurrency_limit) + 1

\* max(1, config.concurrency_limit or 1)
LockLimit(cfg) == Max(1, IF cfg.concurrency_limit = 0 THEN 1 ELSE cfg.concurrency_limit)

\* max(10, config.lock_timeout_seconds or 300)
LockTimeout(cfg) ==
    Max(10, IF cfg.lock_timeout_seconds = 0 THEN 300 ELSE cfg.lock_timeout_seconds)

\* _fetch_config: s.get(SchedulerConfig, config_id), None when there is no row
fetch_config(config_id) ==
    IF config_id \in DOMAIN scheduler_configs
    THEN scheduler_configs[config_id] ELSE NoConfig

\* Mutant: a lease whose expires_at equals now is not deleted.
cleanup_expired_locks_Strict(config_id, now) ==
    {l \in scheduler_locks : l.config_id = config_id /\ l.expires_at < now}

\* The rows _cleanup_expired_locks deletes at time now.
cleanup_expired_locks(config_id, now) ==
    {l \in scheduler_locks : l.config_id = config_id /\ l.expires_at <= now}

\* Mutant: the count query leaves out the filter on the config id.
active_locks_AllConfigs(rows, config_id, now) ==
    Cardinality({l \in rows : l.expires_at > now})

\* The count query of _acquire_scheduler_lock, over the rows the transaction sees.
active_locks(rows, config_id, now) ==
    Cardinality({l \in rows : l.config_id = config_id /\ l.expires_at > now})

\* Mutant: the delete filters on the config id alone.
release_matches_AnyToken(config_id, token) ==
    {l \in scheduler_locks : l.config_id = config_id}

\* The rows the delete of _release_scheduler_lock matches.
release_matches(config_id, token) ==
    {l \in scheduler_locks : l.config_id = config_id /\ l.lock_token = token}

\* Locals of an execution that has returned.
Finish(e, how) ==
    /\ pc' = [pc EXCEPT ![e] = "done"]
    /\ outcome' = [outcome EXCEPT ![e] = how]
    /\ config' = [config EXCEPT ![e] = NoConfig]
    /\ lock_token' = [lock_token EXCEPT ![e] = NoToken]
    /\ lock_now' = [lock_now EXCEPT ![e] = 0]
    /\ purged' = [purged EXCEPT ![e] = {}]
    /\ granted' = [granted EXCEPT ![e] = FALSE]
    /\ status' = [status EXCEPT ![e] = ""]
    /\ exc' = [exc EXCEPT ![e] = FALSE]
    /\ track_now' = [track_now EXCEPT ![e] = 0]

\* ------------------------------------------------------------ actions
\* Mutant: the test of config.enabled is left out.
ExecStart_IgnoreEnabled(e, config_id) ==
    /\ e = started + 1
    /\ e <= MaxExecs
    /\ Cardinality(InFlight) < MaxActive
    /\ pc[e] = "idle"
    /\ started' = e
    /\ LET cfg == fetch_config(config_id) IN
         IF cfg = NoConfig
         THEN Finish(e, "return_disabled")
         ELSE IF cfg.job_id \notin JOB_HANDLERS
         THEN Finish(e, "return_unknown_job")
         ELSE /\ pc' = [pc EXCEPT ![e] = "acq_begin"]
              /\ config' = [config EXCEPT ![e] = cfg]
              /\ UNCHANGED <<outcome, lock_token, lock_now, purged, granted,
                             status, exc, track_now>>
    /\ UNCHANGED <<clock, store, monitor, history>>
    /\ UNCHANGED <<admin, ranking, signals>>

\* _execute_configured_job, lines 502-511: fetch the config, return when it is
\* missing or disabled or its job kind has no handler.
ExecStart(e, config_id) ==
    /\ e = started + 1
    /\ e <= MaxExecs
    /\ Cardinality(InFlight) < MaxActive
    /\ pc[e] = "idle"
    /\ started' = e
    /\ LET cfg == fetch_config(config_id) IN
         IF cfg = NoConfig \/ ~cfg.enabled
         THEN Finish(e, "return_disabled")
         ELSE IF cfg.job_id \notin JOB_HANDLERS
         THEN Finish(e, "return_unknown_job")
         ELSE /\ pc' = [pc EXCEPT ![e] = "acq_begin"]
              /\ config' = [config EXCEPT ![e] = cfg]
              /\ UNCHANGED <<outcome, lock_token, lock_now, purged, granted,
                             status, exc, track_now>>
    /\ UNCHANGED <<clock, store, monitor, history>>
    /\ UNCHANGED <<admin, ranking, signals>>

\* _acquire_scheduler_lock, lines 445-449: token and now.
AcquireBegin(e) ==
    /\ pc[e] = "acq_begin"
    /\ lock_token' = [lock_token EXCEPT ![e] = e]
    /\ lock_now' = [lock_now EXCEPT ![e] = clock]
    /\ pc' = [pc EXCEPT ![e] = "acq_purge"]
    /\ UNCHANGED <<clock, store, monitor, history, started, config, purged,
                   granted, status, exc, track_now, outcome>>
    /\ UNCHANGED <<admin, ranking, signals>>

\* _cleanup_expired_locks, lines 436-441, inside the transaction.
AcquirePurge(e) ==
    /\ pc[e] = "acq_purge"
    /\ purged' = [purged EXCEPT ![e] = cleanup_expired_locks(config[e].id, clock)]
    /\ pc' = [pc EXCEPT ![e] = "acq_count"]
    /\ UNCHANGED <<clock, store, monitor, history, started, config, lock_token,
                   lock_now, granted, status, exc, track_now, outcome>>
    /\ UNCHANGED <<admin, ranking, signals>>

\* lines 452-461: count the active leases and compare with the limit.
AcquireCount(e) ==
    /\ pc[e] = "acq_count"
    /\ granted' = [granted EXCEPT ![e] =
           active_locks(scheduler_locks \ purged[e], config[e].id, lock_now[e])
               < LockLimit(config[e])]
    /\ pc' = [pc EXCEPT ![e] = "acq_commit"]
    /\ UNCHANGED <<clock, store, monitor, history, started, config, lock_token,
                   lock_now, purged, status, exc, track_now, outcome>>
    /\ UNCHANGED <<admin, ranking, signals>>

\* The row inserted by lines 462-468.
new_lock(e) ==
    [config_id |-> config[e].id, lock_token |-> lock_token[e],
     acquired_at |-> lock_now[e],
     expires_at |-> lock_now[e] + LockTimeout(config[e])]

\* Mutant: a skipped run is written to job_runs as an error.
AcquireCommit_SkipRecorded(e) ==
    /\ pc[e] = "acq_commit"
    /\ reclaimed' = reclaimed \cup {l.lock_token : l \in scheduler_locks \cap purged[e]}
    /\ IF granted[e]
       THEN /\ scheduler_locks' = (scheduler_locks \ purged[e]) \cup {new_lock(e)}
            /\ pc' = [pc EXCEPT ![e] = "handler"]
            /\ purged' = [purged EXCEPT ![e] = {}]
            /\ job_runs' = job_runs
            /\ UNCHANGED <<outcome, config, lock_token, lock_now, granted,
                           status, exc, track_now>>
       ELSE /\ scheduler_locks' = scheduler_locks \ purged[e]
            /\ job_runs' = Append(job_runs,
                   [job_id |-> config[e].job_id, config_id |-> config[e].id,
                    status |-> "error", correlation_id |-> e])
            /\ Finish(e, "return_lock_skipped")
    /\ UNCHANGED <<clock, scheduler_configs, monitor, started, tracked>>
    /\ UNCHANGED <<admin, ranking, signals>>

\* The commit of session_scope: after "return None" (line 461, then lines
\* 514-519 return) or after s.add(lock) (line 468, then the handler is called).
AcquireCommit(e) ==
    /\ pc[e] = "acq_commit"
    /\ reclaimed' = reclaimed \cup {l.lock_token : l \in scheduler_locks \cap purged[e]}
    /\ IF granted[e]
       THEN /\ scheduler_locks' = (scheduler_locks \ purged[e]) \cup {new_lock(e)}
            /\ pc' = [pc EXCEPT ![e] = "handler"]
            /\ purged' = [purged EXCEPT ![e] = {}]
            /\ UNCHANGED <<outcome, config, lock_token, lock_now, granted,
                           status, exc, track_now>>
       ELSE /\ scheduler_locks' = scheduler_locks \ purged[e]
            /\ Finish(e, "return_lock_skipped")
    /\ UNCHANGED <<clock, scheduler_configs, job_runs, monitor, started, tracked>>
    /\ UNCHANGED <<admin, ranking, signals>>

\* lines 523-529: status = "success", the handler is called and returns.
HandlerReturn(e) ==
    /\ pc[e] = "handler"
    /\ status' = [status EXCEPT ![e] = "success"]
    /\ pc' = [pc EXCEPT ![e] = "record"]
    /\ UNCHANGED <<clock, store, monitor, history, started, config, lock_token,
                   lock_now, purged, granted, exc, track_now, outcome>>
    /\ UNCHANGED <<admin, ranking, signals>>

\* Mutant: the except block raises again without setting status.
HandlerRaise_StatusNotSet(e) ==
    /\ pc[e] = "handler"
    /\ status' = [status EXCEPT ![e] = "success"]
    /\ exc' = [exc EXCEPT ![e] = TRUE]
    /\ pc' = [pc EXCEPT ![e] = "record"]
    /\ UNCHANGED <<clock, store, monitor, history, started, config, lock_token,
                   lock_now, purged, granted, track_now, outcome>>
    /\ UNCHANGED <<admin, ranking, signals>>

\* lines 530-537: the handler raises; status is set and the exception is
\* raised again, which runs the finally block first.
HandlerRaise(e) ==
    /\ pc[e] = "handler"
    /\ status' = [status EXCEPT ![e] = "error"]
    /\ exc' = [exc EXCEPT ![e] = TRUE]
    /\ pc' = [pc EXCEPT ![e] = "record"]
    /\ UNCHANGED <<clock, store, monitor, history, started, config, lock_token,
                   lock_now, purged, granted, track_now, outcome>>
    /\ UNCHANGED <<admin, ranking, signals>>

\* _record_job_run, lines 480-498 (called at line 540).
job_run_row(e) ==
    [job_id |-> config[e].job_id, config_id |-> config[e].id,
     status |-> status[e], correlation_id |-> e]

\* Mutant: the finally block releases the lease first.
RecordJobRun_ReleaseFirst(e) ==
    /\ pc[e] = "record"
    /\ scheduler_locks' =
           scheduler_locks \ release_matches(config[e].id, lock_token[e])
    /\ job_runs' = Append(job_runs,
           [job_id |-> config[e].job_id, config_id |-> config[e].id,
            status |-> status[e], correlation_id |-> e])
    /\ pc' = [pc EXCEPT ![e] = "track"]
    /\ UNCHANGED <<clock, scheduler_configs, monitor, history, started, locals,
                   outcome>>
    /\ UNCHANGED <<admin, ranking, signals>>

\* Mutant: the row is written after the handler call inside the try block, not
\* in the finally block, so a raising handler leaves no row.
RecordJobRun_NotInFinally(e) ==
    /\ pc[e] = "record"
    /\ job_runs' = IF exc[e] THEN job_runs ELSE Append(job_runs, job_run_row(e))
    /\ pc' = [pc EXCEPT ![e] = "track"]
    /\ UNCHANGED <<clock, scheduler_configs, scheduler_locks, monitor, history,
                   started, locals, outcome>>
    /\ UNCHANGED <<admin, ranking, signals>>

RecordJobRun(e) ==
    /\ pc[e] = "record"
    /\ job_runs' = Append(job_runs, job_run_row(e))
    /\ pc' = [pc EXCEPT ![e] = "track"]
    /\ UNCHANGED <<clock, scheduler_configs, scheduler_locks, monitor, history,
                   started, locals, outcome>>
    /\ UNCHANGED <<admin, ranking, signals>>

\* Mutant: a success leaves the counter as it is.
TrackBegin_NoReset(e) ==
    /\ pc[e] = "track"
    /\ track_now' = [track_now EXCEPT ![e] = clock]
    /\ tracked' = Append(tracked, [job_id |-> config[e].job_id, status |-> status[e],
                                     at |-> clock, by |-> e])
    /\ IF status[e] = "error"
       THEN /\ job_failure_counts' =
                  [job_failure_counts EXCEPT ![config[e].job_id] = @ + 1]
            /\ pc' = [pc EXCEPT ![e] = "track_check"]
       ELSE /\ job_failure_counts' = job_failure_counts
            /\ pc' = [pc EXCEPT ![e] = "release"]
    /\ UNCHANGED <<clock, store, job_failure_last_alert, notifications, reclaimed,
                   started, config, lock_token, lock_now, purged, granted, status,
                   exc, outcome>>
    /\ UNCHANGED <<admin, ranking, signals>>

\* _track_job_result, lines 54-56 and 62-63: read now, then count the error
\* or reset the counter on success.
TrackBegin(e) ==
    /\ pc[e] = "track"
    /\ track_now' = [track_now EXCEPT ![e] = clock]
    /\ tracked' = Append(tracked, [job_id |-> config[e].job_id, status |-> status[e],
                                     at |-> clock, by |-> e])
    /\ IF status[e] = "error"
       THEN /\ job_failure_counts' =
                  [job_failure_counts EXCEPT ![config[e].job_id] = @ + 1]
            /\ pc' = [pc EXCEPT ![e] = "track_check"]
       ELSE /\ job_failure_counts' =
                  [job_failure_counts EXCEPT ![config[e].job_id] = 0]
            /\ pc' = [pc EXCEPT ![e] = "release"]
    /\ UNCHANGED <<clock, store, job_failure_last_alert, notifications, reclaimed,
                   started, config, lock_token, lock_now, purged, granted, status,
                   exc, outcome>>
    /\ UNCHANGED <<admin, ranking, signals>>

\* lines 57-59: threshold reached, and no alert of this job kind in the cooldown.
alert_due(job_id, now) ==
    /\ job_failure_counts[job_id] >= JOB_FAILURE_THRESHOLD
    /\ \/ job_id \notin DOMAIN job_failure_last_alert
       \/ now - job_failure_last_alert[job_id] >= JOB_FAILURE_ALERT_COOLDOWN

TrackCheck(e) ==
    /\ pc[e] = "track_check"
    /\ pc' = [pc EXCEPT ![e] =
           IF alert_due(config[e].job_id, track_now[e])
           THEN "track_notify" ELSE "release"]
    /\ UNCHANGED <<clock, store, monitor, history, started, locals, outcome>>
    /\ UNCHANGED <<admin, ranking, signals>>

\* line 60: _notify_job_failure hands the message to send_telegram_message.
TrackNotify(e) ==
    /\ pc[e] = "track_notify"
    /\ notifications' = notifications \cup
           {[job_id |-> config[e].job_id, at |-> track_now[e], correlation_id |-> e]}
    /\ pc' = [pc EXCEPT ![e] = "track_mark"]
    /\ UNCHANGED <<clock, store, job_failure_counts, job_failure_last_alert,
                   history, started, locals, outcome>>
    /\ UNCHANGED <<admin, ranking, signals>>

\* line 61: _job_failure_last_alert[job_id] = now
TrackMark(e) ==
    /\ pc[e] = "track_mark"
    /\ job_failure_last_alert' =
           [k \in DOMAIN job_failure_last_alert \cup {config[e].job_id} |->
               IF k = config[e].job_id THEN track_now[e]
               ELSE job_failure_last_alert[k]]
    /\ pc' = [pc EXCEPT ![e] = "release"]
    /\ UNCHANGED <<clock, store, job_failure_counts, notifications, history,
                   started, locals, outcome>>
    /\ UNCHANGED <<admin, ranking, signals>>

\* _release_scheduler_lock, lines 472-477 (called at line 548); then the call
\* returns, or the exception of the handler propagates (line 537).
Release(e) ==
    /\ pc[e] = "release"
    /\ scheduler_locks' =
           scheduler_locks \ release_matches(config[e].id, lock_token[e])
    /\ Finish(e, IF exc[e] THEN "raise" ELSE "return")
    /\ UNCHANGED <<clock, scheduler_configs, job_runs, monitor, history, started>>
    /\ UNCHANGED <<admin, ranking, signals>>

Tick ==
    /\ clock < MaxTicks * TickSeconds
    /\ clock' = clock + TickSeconds
    /\ UNCHANGED <<store, monitor, history, started, pc, locals, outcome>>
    /\ UNCHANGED <<admin, ranking, signals>>

Next ==
    \/ \E e \in Execs, c \in ConfigIds : ExecStart(e, c)
    \/ \E e \in Execs : AcquireBegin(e)
    \/ \E e \in Execs : AcquirePurge(e)
    \/ \E e \in Execs : AcquireCount(e)
    \/ \E e \in Execs : AcquireCommit(e)
    \/ \E e \in Execs : HandlerReturn(e)
    \/ \E e \in Execs : HandlerRaise(e)
    \/ \E e \in Execs : RecordJobRun(e)
    \/ \E e \in Execs : TrackBegin(e)
    \/ \E e \in Execs : TrackCheck(e)
    \/ \E e \in Execs : TrackNotify(e)
    \/ \E e \in Execs : TrackMark(e)
    \/ \E e \in Execs : Release(e)
    \/ Tick

Spec == Init /\ [][Next]_vars

\* ------------------------------------------- the failure monitor alone
\* _track_job_result is called (line 547) with the job kind and the status of
\* an execution that has ended; the lease and the job_runs row of the
\* execution are left out.
ReportResult(e, job_id, st) ==
    /\ e = started + 1
    /\ e <= MaxReports
    /\ Cardinality(InFlight) < MaxActive
    /\ pc[e] = "idle"
    /\ started' = e
    /\ config' = [config EXCEPT ![e] = [NoConfig EXCEPT !.job_id = job_id]]
    /\ status' = [status EXCEPT ![e] = st]
    /\ pc' = [pc EXCEPT ![e] = "track"]
    /\ UNCHANGED <<clock, store, monitor, history, lock_token, lock_now, purged,
                   granted, exc, track_now, outcome>>
    /\ UNCHANGED <<admin, ranking, signals>>

\* _track_job_result returns.
TrackReturn(e) ==
    /\ pc[e] = "release"
    /\ Finish(e, "return")
    /\ UNCHANGED <<clock, store, monitor, history, started>>
    /\ UNCHANGED <<admin, ranking, signals>>

FMTick ==
    /\ clock < MaxFMTicks * FMTickSeconds
    /\ clock' = clock + FMTickSeconds
    /\ UNCHANGED <<store, monitor, history, started, pc, locals, outcome>>
    /\ UNCHANGED <<admin, ranking, signals>>

FMJobs == {"ingest_rank", "gen_replies"}

NextFM ==
    \/ \E e \in Execs, j \in FMJobs, st \in {"success", "error"} :
           ReportResult(e, j, st)
    \/ \E e \in Execs : TrackBegin(e)
    \/ \E e \in Execs : TrackCheck(e)
    \/ \E e \in Execs : TrackNotify(e)
    \/ \E e \in Execs : TrackMark(e)
    \/ \E e \in Execs : TrackReturn(e)
    \/ FMTick

SpecFM == Init /\ [][NextFM]_vars

\* The executions whose calls of _acquire_scheduler_lock and
\* _release_scheduler_lock do not overlap: at most one execution is inside
\* acquire, and no release runs while one is.
Acquiring(e) == pc[e] \in {"acq_purge", "acq_count", "acq_commit"}
Serial == Cardinality({e \in Execs : Acquiring(e)}) <= 1
NextSerial ==
    /\ Next
    /\ Serial'
    /\ \A f \in Execs :
           pc[f] = "release" /\ pc'[f] = "done" => \A e \in Execs : ~Acquiring(e)
SpecSerial == Init /\ [][NextSerial]_vars

\* --------------------------------------- administration of the configs
\* The calls arrive over HTTP in the worker process ("api": worker_app.py,
\* where build_scheduler has set _SCHEDULER) or from the command line in a
\* process of its own ("cli": cli.py, where _SCHEDULER is None and
\* refresh_scheduler_jobs returns at its first test).  A call runs to its
\* end before the next one starts.  Row ids are handed out as by SQLite:
\* one more than the largest id in the table.  The name column and the
\* unique constraint on (job_id, name) are left out: every name is None.
Callers == {"api", "cli"}
JobKinds == {"ingest_rank", "gen_replies", "no_such_job"}
CRON_FOUR_FIELDS == <<Every(30), Any, Any, Any>>
CRON_MINUTE_61 == <<At(61), Any, Any, Any, Any>>
Crons == {CRON_15MIN, CRON_FOUR_FIELDS, CRON_MINUTE_61}
AllConfigIds == 1 .. MaxConfigId

\* Mutant: every job kind passes the registry test.
known_job_Any(job_id) == TRUE

\* job_id in JOB_HANDLERS: the field validators of worker_app.py, the
\* argparse choices of cli.py and the tests of scheduler.py lines 636 and 673.
known_job(job_id) == job_id \in JOB_HANDLERS

\* What the caller lets through to scheduler.py: the request models of
\* worker_app.py validate job_id and cron, argparse validates job_id only.
\* NoConfig.job_id and NoConfig.cron stand for a field that is not supplied.
request_accepted(caller, job_id, cron) ==
    /\ job_id # NoConfig.job_id => known_job(job_id)
    /\ caller = "api" /\ cron # NoConfig.cron => from_crontab(cron)

\* The id of an inserted row.
new_config_id(configs) ==
    IF DOMAIN configs = {} THEN 1
    ELSE 1 + CHOOSE c \in DOMAIN configs : \A d \in DOMAIN configs : d <= c

\* refresh_scheduler_jobs after the commit of a change that left the table as
\* configs: in the worker the defaults are ensured and the jobs reconciled;
\* elsewhere get_scheduler() is None and nothing is done.
Refreshed(caller, configs) ==
    IF caller = "api"
    THEN /\ scheduler_configs' = ensure_default_configs(configs)
         /\ triggers' = reconcile(ensure_default_configs(configs), triggers)
    ELSE /\ scheduler_configs' = configs
         /\ triggers' = triggers

Completed(name, caller, config_id, job_id, result) ==
    last_op' = [seq |-> last_op.seq + 1, name |-> name, caller |-> caller,
                config_id |-> config_id, job_id |-> job_id, result |-> result]

\* create_scheduler_config, lines 624-658.
CreateConfig(caller, job_id, cron, enabled) ==
    /\ last_op.seq < MaxAdminOps
    /\ new_config_id(scheduler_configs) <= MaxConfigId
    /\ IF ~request_accepted(caller, job_id, cron) \/ ~known_job(job_id)
       THEN /\ Completed("create", caller, 0, job_id, "error")
            /\ UNCHANGED <<scheduler_configs, triggers>>
       ELSE LET id == new_config_id(scheduler_configs)
                row == [id |-> id, job_id |-> job_id, cron |-> cron,
                        enabled |-> enabled, concurrency_limit |-> 1,
                        lock_timeout_seconds |-> 300]
            IN  /\ Refreshed(caller,
                       [c \in DOMAIN scheduler_configs \cup {id} |->
                           IF c = id THEN row ELSE scheduler_configs[c]])
                /\ Completed("create", caller, id, job_id, "ok")
    /\ UNCHANGED <<execution, ranking, signals>>

\* The row after setattr(cfg, key, value) for the one key of the payload.
changed_row(row, key, job_id, cron, flag, limit) ==
    CASE key = "job_id" -> [row EXCEPT !.job_id = job_id]
      [] key = "cron" -> [row EXCEPT !.cron = cron]
      [] key = "enabled" -> [row EXCEPT !.enabled = flag]
      [] OTHER -> [row EXCEPT !.concurrency_limit = limit]

\* update_scheduler_config, lines 661-689, with a payload of one key.
UpdateConfig(caller, config_id, key, job_id, cron, flag, limit) ==
    /\ last_op.seq < MaxAdminOps
    /\ LET sent_job == IF key = "job_id" THEN job_id ELSE NoConfig.job_id
           sent_cron == IF key = "cron" THEN cron ELSE NoConfig.cron
       IN  IF \/ ~request_accepted(caller, sent_job, sent_cron)
              \/ key = "job_id" /\ ~known_job(job_id)
           THEN /\ Completed("update", caller, config_id, sent_job, "error")
                /\ UNCHANGED <<scheduler_configs, triggers>>
           ELSE IF config_id \notin DOMAIN scheduler_configs
           THEN /\ Completed("update", caller, config_id, sent_job, "not_found")
                /\ UNCHANGED <<scheduler_configs, triggers>>
           ELSE /\ Refreshed(caller,
                       [scheduler_configs EXCEPT ![config_id] =
                           changed_row(@, key, job_id, cron, flag, limit)])
                /\ Completed("update", caller, config_id, sent_job, "ok")
    /\ UNCHANGED <<execution, ranking, signals>>

\* delete_scheduler_config, lines 692-701.
DeleteConfig(caller, config_id) ==
    /\ last_op.seq < MaxAdminOps
    /\ IF config_id \notin DOMAIN scheduler_configs
       THEN /\ Completed("delete", caller, config_id, NoConfig.job_id, "not_found")
            /\ UNCHANGED <<scheduler_configs, triggers>>
       ELSE /\ Refreshed(caller,
                   [c \in DOMAIN scheduler_configs \ {config_id} |->
                       scheduler_configs[c]])
            /\ Completed("delete", caller, config_id, NoConfig.job_id, "ok")
    /\ UNCHANGED <<execution, ranking, signals>>

\* toggle_job, lines 610-617 (POST /scheduler/toggle; the command line has no
\* toggle).
ToggleJob(config_id, action) ==
    /\ last_op.seq < MaxAdminOps
    /\ IF config_id \notin DOMAIN scheduler_configs
       THEN /\ Completed(action, "api", config_id, NoConfig.job_id, "not_found")
            /\ UNCHANGED <<scheduler_configs, triggers>>
       ELSE /\ Refreshed("api",
                   [scheduler_configs EXCEPT ![config_id].enabled = (action = "resume")])
            /\ Completed(action, "api", config_id, NoConfig.job_id, "ok")
    /\ UNCHANGED <<execution, ranking, signals>>

\* cli.py cmd_refresh: refresh_scheduler_jobs in the process of the command.
CliRefresh ==
    /\ last_op.seq < MaxAdminOps
    /\ Refreshed("cli", scheduler_configs)
    /\ Completed("refresh", "cli", 0, NoConfig.job_id, "ok")
    /\ UNCHANGED <<execution, ranking, signals>>

\* The calls of the administration, and the executions up to the lookup of
\* their handler (run_job_now, or a cron tick racing with the change).
NextCfg ==
    \/ \E caller \in Callers, job_id \in JobKinds, cron \in Crons, enabled \in BOOLEAN :
           CreateConfig(caller, job_id, cron, enabled)
    \/ \E caller \in Callers, c \in AllConfigIds :
           \/ \E job_id \in JobKinds :
                  UpdateConfig(caller, c, "job_id", job_id, NoConfig.cron, FALSE, 1)
           \/ \E cron \in Crons :
                  UpdateConfig(caller, c, "cron", NoConfig.job_id, cron, FALSE, 1)
           \/ \E flag \in BOOLEAN :
                  UpdateConfig(caller, c, "enabled", NoConfig.job_id, NoConfig.cron, flag, 1)
           \/ \E limit \in {1, 2} :
                  UpdateConfig(caller, c, "concurrency_limit", NoConfig.job_id,
                               NoConfig.cron, FALSE, limit)
    \/ \E caller \in Callers, c \in AllConfigIds : DeleteConfig(caller, c)
    \/ \E c \in AllConfigIds, action \in {"pause", "resume"} : ToggleJob(c, action)
    \/ CliRefresh
    \/ \E e \in 1 .. MaxCfgExecs, c \in AllConfigIds : ExecStart(e, c)

SpecCfg == Init /\ [][NextCfg]_vars

\* Executions against configs that are paused, resumed and deleted while
\* they run: a cron tick of a registered trigger or run_job_now (lines
\* 602-607) calls _execute_configured_job with a config id, the
\* administration changes the table between any two steps.  The handlers
\* return; the clock stands still.
NextGate ==
    \/ \E c \in AllConfigIds, action \in {"pause", "resume"} : ToggleJob(c, action)
    \/ \E caller \in Callers, c \in AllConfigIds : DeleteConfig(caller, c)
    \/ \E e \in 1 .. MaxActive, c \in AllConfigIds : ExecStart(e, c)
    \/ \E e \in Execs : AcquireBegin(e)
    \/ \E e \in Execs : AcquirePurge(e)
    \/ \E e \in Execs : AcquireCount(e)
    \/ \E e \in Execs : AcquireCommit(e)
    \/ \E e \in Execs : HandlerReturn(e)
    \/ \E e \in Execs : RecordJobRun(e)
    \/ \E e \in Execs : TrackBegin(e)
    \/ \E e \in Execs : Release(e)

SpecGate == Init /\ [][NextGate]_vars

\* ------------------------------------------------ the ranking of posts
\* ranking.py rank_and_mark, the upsert of ingestion (ingest.py upsert_post)
\* and the stream handler (stream.py on_tweet).  A row of posts carries
\* created_at, author, engagement (like_count + repost_count + reply_count,
\* the only use the trend state makes of the counters), trending,
\* trending_since and trending_candidate_since; times are seconds, NoTime is
\* None.  A call of rank_and_mark is one transaction and one step.  The
\* settings have the defaults of config.py; the scale band is kept as the
\* fractions 1/2 and 5/2 and the required engagement is computed in exact
\* fractions.
PostKeys == {"p1", "p2"}
Authors == {"alice", "bob"}
Engagements == {0, 20, 60}
\* recent_minutes as job_ingest_and_rank passes it (alert_recency_minutes or
\* settings.alert_recency_minutes, never 0): the default window, and a wider
\* window set in the parameters of a config.
RecentMinutes == {30, 120}

\* max(settings.trend_expire_minutes, 0) minutes, in seconds
expire_window ==
    60 * (IF TREND_EXPIRE_MINUTES >= 0 THEN TREND_EXPIRE_MINUTES ELSE 0)

\* cutoff = now - recent_minutes, None without a window
cutoff_of(recent_minutes, now) ==
    IF recent_minutes > 0 THEN now - 60 * recent_minutes ELSE NoTime

\* Python's round of the fraction n / d (d > 0, n >= 0): to the nearest
\* integer, a half to the even one.
round_half_even(n, d) ==
    LET q == n \div d
        r == n % d
    IN  IF 2 * r < d THEN q
        ELSE IF 2 * r > d THEN q + 1
        ELSE IF q % 2 = 0 THEN q ELSE q + 1

RECURSIVE SumEngagement(_, _)
SumEngagement(rows, keys) ==
    IF keys = {} THEN 0
    ELSE LET k == CHOOSE x \in keys : TRUE
         IN  rows[k].engagement + SumEngagement(rows, keys \ {k})

\* Mutant: the ratio is not clamped to the scale band.
required_engagement_Unclamped(rows, k) ==
    LET all == DOMAIN rows
        own == {j \in all : rows[j].author = rows[k].author}
        cnt == Cardinality(all)
        ref == Max(Max(SumEngagement(rows, all), TRENDING_MIN_ENGAGEMENT_MIX * cnt),
                   cnt)
    IN  Max(1, round_half_even(
                   Max(1, TRENDING_MIN_ENGAGEMENT_MIX) * SumEngagement(rows, own) * cnt,
                   Cardinality(own) * ref))

\* _build_author_engagement_stats and _required_engagement for the post k
\* of rows: ratio = author_avg / global_reference, clamped to the scale
\* band; required = max(1, round(base_required * ratio)).
required_engagement(rows, k) ==
    LET all == DOMAIN rows
        own == {j \in all : rows[j].author = rows[k].author}
        cnt == Cardinality(all)
        total == SumEngagement(rows, all)
        floor == TRENDING_MIN_ENGAGEMENT_MIX * cnt
        \* global_reference = max(global_avg, min mix, 1), times cnt
        ref == Max(Max(total, floor), cnt)
        base_required == Max(1, TRENDING_MIN_ENGAGEMENT_MIX)
        \* ratio = num / den
        num == SumEngagement(rows, own) * cnt
        den == Cardinality(own) * ref
        required ==
            IF SCALE_MIN_DEN * num < SCALE_MIN_NUM * den
            THEN round_half_even(base_required * SCALE_MIN_NUM, SCALE_MIN_DEN)
            ELSE IF SCALE_MAX_DEN * num > SCALE_MAX_NUM * den
            THEN round_half_even(base_required * SCALE_MAX_NUM, SCALE_MAX_DEN)
            ELSE round_half_even(base_required * num, den)
    IN  Max(1, required)

\* line 154: the expiry test
expired(p, now) ==
    /\ expire_window > 0
    /\ p.trending_since # NoTime
    /\ now - p.trending_since >= expire_window

\* lines 159-165: qualifies
qualifies(p, required, cutoff) ==
    /\ p.engagement >= required
    /\ ~(cutoff # NoTime /\ p.created_at < cutoff)

\* lines 167-177: the candidacy after the cutoff test and the qualification
candidacy(p, required, now, cutoff) ==
    LET dropped == /\ cutoff # NoTime
                   /\ p.trending_candidate_since # NoTime
                   /\ p.trending_candidate_since < cutoff
        candidate_ts == IF dropped THEN NoTime ELSE p.trending_candidate_since
        trending == p.trending /\ ~expired(p, now)
    IN  IF qualifies(p, required, cutoff)
        THEN IF candidate_ts = NoTime /\ ~trending THEN now ELSE candidate_ts
        ELSE NoTime

\* Mutant: a post that is trending has to win its place again as a candidate.
still_trending_Never(trending, ts) == FALSE

\* line 180: p.trending and ts
still_trending(trending, ts) == trending /\ ts # NoTime

\* Mutant: a candidate is never promoted.
promoted_Never(candidate_ts, engagement_ok) == FALSE

\* line 182: candidate_ts and engagement_ok
promoted(candidate_ts, engagement_ok) == candidate_ts # NoTime /\ engagement_ok

\* lines 179-187: should_trend
should_trend(p, required, now, cutoff) ==
    LET ts == IF expired(p, now) THEN NoTime ELSE p.trending_since
        trending == p.trending /\ ~expired(p, now)
        candidate_ts == candidacy(p, required, now, cutoff)
        trend_origin == IF ts # NoTime THEN ts ELSE candidate_ts
    IN  /\ \/ still_trending(trending, ts)
           \/ promoted(candidate_ts, p.engagement >= required)
        /\ ~(cutoff # NoTime /\ trend_origin # NoTime /\ trend_origin < cutoff)

\* Mutant: the candidacy is kept when the post is marked trending.
candidate_after_Kept(should, engagement_ok, candidate_ts) ==
    IF ~should /\ ~engagement_ok THEN NoTime ELSE candidate_ts

\* lines 192-199: trending_candidate_since at the end of the pass
candidate_after(should, engagement_ok, candidate_ts) ==
    IF should THEN NoTime
    ELSE IF ~engagement_ok THEN NoTime ELSE candidate_ts

\* The row of a post after the loop body of rank_and_mark, lines 151-201.
rank_post(p, required, now, cutoff) ==
    LET ts == IF expired(p, now) THEN NoTime ELSE p.trending_since
        candidate_ts == candidacy(p, required, now, cutoff)
        trend_origin == IF ts # NoTime THEN ts ELSE candidate_ts
        should == should_trend(p, required, now, cutoff)
    IN  [p EXCEPT
            !.trending = should,
            !.trending_since =
                IF should
                THEN IF ts = NoTime
                     THEN IF trend_origin # NoTime THEN trend_origin ELSE now
                     ELSE ts
                ELSE NoTime,
            !.trending_candidate_since =
                candidate_after(should, p.engagement >= required, candidate_ts)]

\* The table after the loop of rank_and_mark over the rows, lines 138-201:
\* every post is passed once, with the author statistics of the rows as
\* they are at the start.
ranked(rows, now, cutoff) ==
    [k \in DOMAIN rows |->
        rank_post(rows[k], required_engagement(rows, k), now, cutoff)]

\* rank_and_mark: every post is passed once, with the author statistics of the
\* posts as they are at the start; the number of flips is returned.
RankPass(recent_minutes) ==
    LET now == clock
        cutoff == cutoff_of(recent_minutes, now)
        after == ranked(posts, now, cutoff)
    IN  /\ posts' = after
        /\ cycle' = [n |-> 1 - cycle.n, now |-> now, cutoff |-> cutoff,
                     flips |-> Cardinality({k \in DOMAIN posts :
                                   after[k].trending # posts[k].trending}),
                     held |-> {k \in DOMAIN posts :
                                  /\ posts[k].trending
                                  /\ posts[k].trending_since # NoTime
                                  /\ ~expired(posts[k], now)},
                     qualified |-> {k \in DOMAIN posts :
                                  qualifies(posts[k],
                                            required_engagement(posts, k), cutoff)}]

\* A call of rank_and_mark.
RankCycle(recent_minutes) ==
    /\ RankPass(recent_minutes)
    /\ UNCHANGED <<execution, scheduler_configs, admin, signals>>

\* upsert_post: the counters of an existing row are overwritten (its author
\* and created_at arrive unchanged), a new row is inserted with the column
\* defaults (not trending, no times).
upsert_post(k, author, created_at, engagement) ==
    IF k \in DOMAIN posts
    THEN [posts EXCEPT ![k].engagement = engagement]
    ELSE [j \in DOMAIN posts \cup {k} |->
             IF j = k
             THEN [created_at |-> created_at, author |-> author,
                   engagement |-> engagement, trending |-> FALSE,
                   trending_since |-> NoTime, trending_candidate_since |-> NoTime]
             ELSE posts[j]]

\* The creation times an ingested post can carry: now or one tick ago.
CreatedTimes == {t \in {clock, clock - RankTickSeconds} : t >= 0}

\* ingest_cycle, for one item of the search results.
IngestUpsert(k, author, created_at, engagement) ==
    /\ posts' = upsert_post(k, author, created_at, engagement)
    /\ UNCHANGED <<cycle, execution, scheduler_configs, admin, signals>>

\* on_tweet, stream.py lines 180-198: the upsert, then
\* post.trending = engagement_total >= settings.trending_min_engagement_mix.
StreamUpdate(k, author, created_at, engagement) ==
    /\ posts' = [upsert_post(k, author, created_at, engagement) EXCEPT
                    ![k].trending = (engagement >= TRENDING_MIN_ENGAGEMENT_MIX)]
    /\ UNCHANGED <<cycle, execution, scheduler_configs, admin, signals>>

RankTick ==
    /\ clock < MaxRankTicks * RankTickSeconds
    /\ clock' = clock + RankTickSeconds
    /\ UNCHANGED <<store, monitor, history, started, pc, locals, outcome, admin,
                   ranking, signals>>

\* The data of an item for the key k: a post that is in the table arrives
\* with the author and created_at it has.
Items(k) ==
    IF k \in DOMAIN posts
    THEN {[author |-> posts[k].author, created_at |-> posts[k].created_at,
           engagement |-> g] : g \in Engagements}
    ELSE [author : Authors, created_at : CreatedTimes, engagement : Engagements]

NextRank ==
    \/ \E m \in RecentMinutes : RankCycle(m)
    \/ \E k \in PostKeys : \E d \in Items(k) :
           IngestUpsert(k, d.author, d.created_at, d.engagement)
    \/ \E k \in PostKeys : \E d \in Items(k) :
           StreamUpdate(k, d.author, d.created_at, d.engagement)
    \/ RankTick

SpecRank == Init /\ [][NextRank]_vars

\* -------------------------------------------------------- properties
\* Leases of config c in the store, and those of them not yet expired.
Held(c) == {l \in scheduler_locks : l.config_id = c}
Unexpired(c) == {l \in Held(c) : l.expires_at > clock}

\* An execution between the insert of its lease and its release.
Holding(e) ==
    pc[e] \in {"handler", "record", "track", "track_check", "track_notify",
               "track_mark", "release"}

\* C1: for a config with concurrency_limit = 1, acquisition attempts that run
\* at the same time end with one attempt holding a lease and the other told
\* "unavailable": the store never holds two unexpired leases of that config.
C1_OneLeasePerConfig ==
    \A c \in DOMAIN scheduler_configs :
        scheduler_configs[c].concurrency_limit = 1
            => Cardinality(Unexpired(c)) <= 1

\* C2: with acquire and release calls that do not overlap and no lease
\* expiring, acquire succeeds exactly when the number of held leases of the
\* config is below its concurrency_limit, so the held leases never exceed the
\* limit: at the limit the answer is "unavailable", below it (after a release)
\* the next acquire succeeds.
C2_AcquireIffBelowLimit ==
    /\ \A c \in DOMAIN scheduler_configs :
           Cardinality(Unexpired(c)) <= scheduler_configs[c].concurrency_limit
    /\ \A e \in Execs :
           pc[e] = "acq_commit" /\ Unexpired(config[e].id) = Held(config[e].id)
               => granted[e] =
                      (Cardinality(Held(config[e].id)) < config[e].concurrency_limit)

\* Config 1 (limit 1) before any lease can expire: execution 1 held the lease
\* and has released it, execution 2 was told "unavailable" meanwhile, and
\* execution 3 acquired after the release.
C2_Witness ==
    /\ clock = 0
    /\ outcome[1] = "return"
    /\ outcome[2] = "return_lock_skipped"
    /\ pc[3] = "handler" /\ config[3].id = 1
    /\ \E l \in scheduler_locks : l.lock_token = 3 /\ l.config_id = 1
    /\ \E i \in DOMAIN job_runs :
           job_runs[i].config_id = 1 /\ job_runs[i].correlation_id = 1

\* C3: a lease is reclaimed by time alone.  An acquire of the config deletes
\* every lease of the config whose expires_at the clock has reached (the purge
\* marks it, the commit removes it) and does not count a lease that had
\* expired when the acquire read its now; a lease expires lock_timeout_seconds
\* after it was acquired, so a holder that hangs blocks the config no longer
\* than that, and a second execution then runs beside the first.
C3_ExpiredLeaseReclaimed ==
    [][ /\ \A e \in Execs :
            LET c == config[e].id IN
            /\ pc[e] = "acq_purge" /\ pc'[e] = "acq_count"
                   => \A l \in Held(c) : l.expires_at <= clock => l \in purged'[e]
            /\ pc[e] = "acq_count" /\ pc'[e] = "acq_commit"
                   => (Cardinality({l \in Held(c) : l.expires_at > lock_now[e]})
                           < config[e].concurrency_limit
                       => granted'[e])
            /\ pc[e] = "acq_commit" /\ pc'[e] # "acq_commit"
                   => \A l \in purged[e] : l \notin scheduler_locks'
        /\ \A l \in scheduler_locks' :
               l.expires_at = l.acquired_at
                                + scheduler_configs[l.config_id].lock_timeout_seconds
      ]_vars

\* Two executions of config 1 (limit 1) are in their handlers at the same
\* time, and the lease of one of them was deleted by a purge.
C3_Witness ==
    \E e, f \in Execs :
        /\ e # f
        /\ pc[e] = "handler" /\ pc[f] = "handler"
        /\ config[e].id = 1 /\ config[f].id = 1
        /\ e \in reclaimed
        /\ \E l \in scheduler_locks : l.lock_token = f /\ l.acquired_at >= 300

\* C4: release(config_id, token) deletes exactly the lease that has both that
\* config id and that token and leaves every other lease as it is; when there
\* is no such lease (it was purged) the store does not change.
C4_ReleaseExactLease ==
    [][ \A e \in Execs :
            pc[e] = "release" /\ pc'[e] = "done"
                => /\ scheduler_locks' \subseteq scheduler_locks
                   /\ \A l \in scheduler_locks :
                          l \in scheduler_locks'
                              <=> ~(l.config_id = config[e].id
                                    /\ l.lock_token = lock_token[e])
      ]_vars

\* Execution e of config 1 has released after its lease had been purged, and
\* the lease of execution f, which started after the purge, is still there.
C4_Witness ==
    \E e, f \in Execs :
        /\ e # f
        /\ e \in reclaimed
        /\ pc[e] = "done" /\ outcome[e] \in {"return", "raise"}
        /\ \E i \in DOMAIN job_runs :
               job_runs[i].correlation_id = e /\ job_runs[i].config_id = 1
        /\ pc[f] = "handler" /\ config[f].id = 1
        /\ \E l \in scheduler_locks : l.lock_token = f /\ l.config_id = 1

\* The job_runs rows written by execution e (its correlation id).
RunsOf(e) == {i \in DOMAIN job_runs : job_runs[i].correlation_id = e}
LeaseOf(e) == {l \in scheduler_locks : l.lock_token = e}

\* C5: an execution that acquired a lease ends, by return or by raise, with
\* exactly one job_runs row of its own and with its lease gone from the store;
\* rows already in job_runs are neither changed nor deleted.
C5_OneRunAndRelease ==
    [][ /\ \A e \in Execs :
            /\ Holding(e) /\ pc'[e] = "done"
                   => /\ outcome'[e] \in {"return", "raise"}
                      /\ Cardinality(RunsOf(e)') = 1
                      /\ LeaseOf(e)' = {}
            /\ LeaseOf(e)' # {} => Holding(e)'
            /\ Cardinality(RunsOf(e)') <= 1
        /\ Len(job_runs') >= Len(job_runs)
        /\ \A i \in DOMAIN job_runs : job_runs'[i] = job_runs[i]
      ]_vars

\* One execution has ended by raise and another by return; each has its row
\* and no lease is left.
C5_Witness ==
    \E e, f \in Execs :
        /\ pc[e] = "done" /\ outcome[e] = "raise"
        /\ pc[f] = "done" /\ outcome[f] = "return"
        /\ \E i \in RunsOf(e) : job_runs[i].status = "error"
        /\ \E i \in RunsOf(f) : job_runs[i].status = "success"
        /\ scheduler_locks = {}

\* C6: when the handler raises, the job_runs row of the execution has status
\* "error", the failure counter of its job kind goes up by one and the call
\* ends by raising; when the handler returns, the row has status "success"
\* and the call returns.
C6_RaiseRecordedCountedReraised ==
    [][ \A e \in Execs :
            /\ Holding(e)' /\ pc'[e] # "handler"
                   => status'[e] = (IF exc'[e] THEN "error" ELSE "success")
            /\ Holding(e) /\ Holding(e)' /\ pc[e] # "handler" => exc'[e] = exc[e]
            /\ \A i \in RunsOf(e)' :
                   job_runs'[i].status =
                       (IF exc'[e] \/ outcome'[e] = "raise" THEN "error" ELSE "success")
            /\ pc[e] = "track" /\ pc'[e] # "track" /\ exc[e]
                   => job_failure_counts'[config[e].job_id]
                          = job_failure_counts[config[e].job_id] + 1
            /\ Holding(e) /\ pc'[e] = "done"
                   => outcome'[e] = (IF exc[e] THEN "raise" ELSE "return")
      ]_vars

\* The handler of execution e raised: its row says "error", the counter of
\* its kind was incremented and the call ended by raising; execution f
\* returned with a "success" row.
C6_Witness ==
    \E e, f \in Execs :
        /\ pc[e] = "done" /\ outcome[e] = "raise"
        /\ \E i \in RunsOf(e) :
               /\ job_runs[i].status = "error"
               /\ job_failure_counts[job_runs[i].job_id] >= 1
        /\ pc[f] = "done" /\ outcome[f] = "return"
        /\ \E i \in RunsOf(f) : job_runs[i].status = "success"

\* The results execution e has reported to the failure monitor.
TrackedBy(e) == {i \in DOMAIN tracked : tracked[i].by = e}

\* C7: when the acquisition answers "unavailable" the execution returns at
\* once: the handler is not called, no lease is added, no job_runs row is
\* written and the failure counters and last-alert times are as before.
C7_SkipWithoutSideEffects ==
    [][ \A e \in Execs :
            /\ pc[e] = "acq_commit" /\ ~granted[e] /\ pc'[e] # "acq_commit"
                   => /\ pc'[e] = "done"
                      /\ outcome'[e] = "return_lock_skipped"
                      /\ scheduler_locks' \subseteq scheduler_locks
                      /\ job_runs' = job_runs
                      /\ job_failure_counts' = job_failure_counts
                      /\ job_failure_last_alert' = job_failure_last_alert
                      /\ notifications' = notifications
            /\ outcome'[e] = "return_lock_skipped"
                   => /\ RunsOf(e)' = {}
                      /\ TrackedBy(e)' = {}
                      /\ LeaseOf(e)' = {}
      ]_vars

\* Execution e was skipped while execution f held the lease of config 1.
C7_Witness ==
    \E e, f \in Execs :
        /\ outcome[e] = "return_lock_skipped"
        /\ Holding(f) /\ config[f].id = 1 /\ LeaseOf(f) # {}
        /\ job_runs = << >>
        /\ \A k \in JOB_HANDLERS : job_failure_counts[k] = 0

\* C8: the steps of one execution are ordered: lease acquired, handler
\* called, job_runs row written, failure monitor updated, lease released.
\* From the call of the handler to the release the lease row of the
\* execution is in the store unless its expires_at has passed.
C8_StepOrder ==
    \A e \in Execs :
        /\ Holding(e)
               => \/ LeaseOf(e) # {}
                  \/ lock_now[e] + config[e].lock_timeout_seconds <= clock
        /\ pc[e] \in {"idle", "acq_begin", "acq_purge", "acq_count", "acq_commit"}
               => LeaseOf(e) = {} /\ RunsOf(e) = {} /\ TrackedBy(e) = {}
        /\ pc[e] \in {"handler", "record"} => RunsOf(e) = {} /\ TrackedBy(e) = {}
        /\ pc[e] = "track" => RunsOf(e) # {} /\ TrackedBy(e) = {}
        /\ pc[e] \in {"track_check", "track_notify", "track_mark", "release"}
               => RunsOf(e) # {} /\ TrackedBy(e) # {}
        /\ pc[e] = "done" => LeaseOf(e) = {}

\* Execution e is about to release: its row is written, the monitor has its
\* result and its lease is still in the store; execution f is in its handler
\* after its lease expired and was purged.
C8_Witness ==
    \E e, f \in Execs :
        /\ pc[e] = "release" /\ LeaseOf(e) # {}
        /\ RunsOf(e) # {} /\ TrackedBy(e) # {}
        /\ pc[f] = "handler" /\ LeaseOf(f) = {} /\ f \in reclaimed

\* The results the failure monitor has taken in, in the order it took them,
\* as positions of tracked; those of one job kind; the errors of the kind up
\* to position i.
KindEntries(k) == {i \in DOMAIN tracked : tracked[i].job_id = k}
ErrorsUpTo(k, i) ==
    Cardinality({j \in KindEntries(k) : j <= i /\ tracked[j].status = "error"})
AlwaysFails(k) == \A i \in KindEntries(k) : tracked[i].status = "error"
MonitorDone(i) == pc[tracked[i].by] \in {"release", "done"}
Escalations(k) == {n \in notifications : n.job_id = k}

\* C9: for a job kind whose every run fails, once the monitor has finished
\* with every result: no escalation before the third failure; no two
\* escalations less than JOB_FAILURE_ALERT_COOLDOWN apart; and every failure
\* from the third on has an escalation in the cooldown that ends with it, so
\* the third failure and the first failure after a cooldown are escalated.
C9_EscalateThirdThenCooldown ==
    \A k \in JOB_HANDLERS :
        AlwaysFails(k) /\ (\A i \in KindEntries(k) : MonitorDone(i))
            => /\ Escalations(k) # {}
                      => ErrorsUpTo(k, Len(tracked)) >= JOB_FAILURE_THRESHOLD
               /\ \A m, n \in Escalations(k) :
                      m # n /\ m.at <= n.at
                          => n.at - m.at >= JOB_FAILURE_ALERT_COOLDOWN
               /\ \A i \in KindEntries(k) :
                      ErrorsUpTo(k, i) >= JOB_FAILURE_THRESHOLD
                          => \E n \in Escalations(k) :
                                 tracked[i].at - n.at < JOB_FAILURE_ALERT_COOLDOWN

\* The errors at the end of the results of kind k, counted back from
\* position i.
RECURSIVE TrailingErrors(_, _)
TrailingErrors(k, i) ==
    IF i = 0 THEN 0
    ELSE IF tracked[i].job_id # k THEN TrailingErrors(k, i - 1)
    ELSE IF tracked[i].status = "error" THEN 1 + TrailingErrors(k, i - 1)
    ELSE 0

\* Some prefix of the results ends with JOB_FAILURE_THRESHOLD errors of kind k
\* with no success of the kind between them.
ThreeInARow(k) ==
    \E i \in DOMAIN tracked : TrailingErrors(k, i) >= JOB_FAILURE_THRESHOLD

\* C10: the counter of a job kind is the number of errors since its last
\* success, and a job kind has an escalation only if its results contain
\* three errors in a row with no success between them.
C10_EscalationNeedsThreeInARow ==
    /\ \A k \in JOB_HANDLERS : job_failure_counts[k] = TrailingErrors(k, Len(tracked))
    /\ \A n \in notifications : ThreeInARow(n.job_id)
    /\ \A e \in Execs : pc[e] = "track_notify" => ThreeInARow(config[e].job_id)

\* A kind had a success, which reset its counter, then three errors in a
\* row, and was escalated.
C10_Witness ==
    \E k \in JOB_HANDLERS :
        /\ \E i \in KindEntries(k) :
               /\ tracked[i].status = "success"
               /\ ErrorsUpTo(k, Len(tracked)) - ErrorsUpTo(k, i) >= JOB_FAILURE_THRESHOLD
        /\ \E n \in notifications : n.job_id = k
        /\ \E l \in JOB_HANDLERS \ {k} :
               /\ KindEntries(l) = {}
               /\ notifications = {n \in notifications : n.job_id = k}

\* C11: the registered triggers match the persisted configs: a config has a
\* job in the worker's scheduler exactly if it exists and is enabled, and the
\* job carries the cron expression and the concurrency limit of the config.
C11_TriggersMatchConfigs ==
    /\ DOMAIN triggers = {c \in DOMAIN scheduler_configs : scheduler_configs[c].enabled}
    /\ \A c \in DOMAIN triggers :
           /\ triggers[c].cron = scheduler_configs[c].cron
           /\ triggers[c].max_instances = scheduler_configs[c].concurrency_limit

\* C12: a create or an update leaves no enabled config with a malformed cron
\* expression in the table that was not there, as it is, before the call.
C12_NoMalformedCronPersisted ==
    [][ last_op'.seq # last_op.seq /\ last_op'.name \in {"create", "update"}
            => \A c \in DOMAIN scheduler_configs' :
                   scheduler_configs'[c].enabled /\ ~from_crontab(scheduler_configs'[c].cron)
                       => /\ c \in DOMAIN scheduler_configs
                          /\ scheduler_configs[c] = scheduler_configs'[c]
      ]_vars

\* C13: a create, or an update of the job kind, with a job kind outside
\* JOB_HANDLERS ends in an error and leaves the table and the registered
\* triggers as they were; every persisted config has a job kind with a
\* handler, and no execution ends at the unknown-job return.
C13_UnknownJobRejected ==
    [][ /\ last_op'.seq # last_op.seq
           /\ last_op'.job_id # NoConfig.job_id
           /\ last_op'.job_id \notin JOB_HANDLERS
               => /\ last_op'.result = "error"
                  /\ scheduler_configs' = scheduler_configs
                  /\ triggers' = triggers
        /\ \A c \in DOMAIN scheduler_configs' :
               scheduler_configs'[c].job_id \in JOB_HANDLERS
        /\ \A e \in Execs : outcome'[e] # "return_unknown_job"
      ]_vars

\* An update of the job kind of config 1 to a kind without handler was
\* rejected, after a create with a known kind had gone through, and an
\* execution of config 1 found its handler.
C13_Witness ==
    /\ last_op.name = "update" /\ last_op.job_id = "no_such_job"
    /\ last_op.result = "error" /\ last_op.config_id = 1
    /\ 4 \in DOMAIN scheduler_configs
    /\ \E e \in Execs : pc[e] = "acq_begin" /\ config[e].id = 1

\* ---- ranking properties

\* C14: in every reachable state, after any sequence of ranking cycles,
\* ingestion upserts and stream updates, each post has trending_since set
\* if and only if its trending flag is true.
C14_TrendingSinceIffTrending ==
    \A k \in DOMAIN posts :
        (posts[k].trending_since # NoTime) <=> posts[k].trending

\* A step of rank_and_mark.
CycleStep == cycle'.n # cycle.n

\* C15: after every ranking cycle no post that is trending has
\* trending_candidate_since set, and no post that failed qualification in
\* that cycle (engagement below its required engagement, or created before
\* the cutoff) has trending_candidate_since set.
C15_CandidacyCleared ==
    [][CycleStep =>
          \A k \in DOMAIN posts :
              LET engagement_ok ==
                      posts[k].engagement >= required_engagement(posts, k)
                  too_old == /\ cycle'.cutoff # NoTime
                             /\ posts[k].created_at < cycle'.cutoff
              IN  /\ posts'[k].trending =>
                         posts'[k].trending_candidate_since = NoTime
                  /\ (~engagement_ok \/ too_old) =>
                         posts'[k].trending_candidate_since = NoTime]_vars

\* A cycle has just made a qualifying post trending at its now, the candidacy
\* it began for the post is cleared, and a post that failed qualification
\* has none either.
C15_Witness ==
    \E k, j \in DOMAIN posts :
        /\ k \in cycle.qualified
        /\ k \notin cycle.held
        /\ posts[k].trending
        /\ posts[k].trending_since = cycle.now
        /\ posts[k].trending_candidate_since = NoTime
        /\ j \notin cycle.qualified
        /\ posts[j].trending_candidate_since = NoTime

\* C16: if, when a ranking cycle runs, a post's trending_since is at least
\* the expiry window in the past, then after that cycle the post is in state
\* none: its trending flag is false and its trending_since is null.
C16_ExpiredBackToNone ==
    [][CycleStep =>
          \A k \in DOMAIN posts :
              (/\ posts[k].trending_since # NoTime
               /\ cycle'.now - posts[k].trending_since >= expire_window)
              => (~posts'[k].trending /\ posts'[k].trending_since = NoTime)]_vars

C18_DisqualifiedLeavesTrending ==
    [][CycleStep =>
          \A k \in DOMAIN posts :
              (/\ posts[k].trending
               /\ posts[k].engagement < required_engagement(posts, k))
              => ~posts'[k].trending]_vars

\* C19: a post that was neither candidate nor trending before a ranking cycle
\* and qualifies in that cycle is a candidate (trending_candidate_since set,
\* trending false) after it.
C19_NoneToCandidate ==
    [][CycleStep =>
          \A k \in DOMAIN posts :
              (/\ ~posts[k].trending
               /\ posts[k].trending_since = NoTime
               /\ posts[k].trending_candidate_since = NoTime
               /\ posts[k].engagement >= required_engagement(posts, k)
               /\ (cycle'.cutoff = NoTime
                      \/ posts[k].created_at >= cycle'.cutoff))
              => /\ ~posts'[k].trending
                 /\ posts'[k].trending_candidate_since # NoTime]_vars

C21_RankIdempotent ==
    \A m \in RecentMinutes :
        LET cutoff == cutoff_of(m, clock)
            first == ranked(posts, clock, cutoff)
            second == ranked(first, clock, cutoff)
        IN  \A k \in DOMAIN posts : second[k].trending = first[k].trending

\* ------------------------------------------------------------ scoring
\*
\* compute_scores_for_post, ranking.py lines 12-44.  Python's floats are
\* modelled by exact fractions: a logarithm is a whole number of thousandths,
\* a weighted sum of logarithms a whole number of 1e-4, virality a whole
\* number of 1e-5 (after the division by the cap), velocity a fraction
\* num / den of that unit.  The age of a post is now - created_at in whole hours; a
\* created_at in the future is a negative age.

Counters == {-1, 0, 9, 999}
Ages == {-48, -24, 0, 1, 24, 48}
ScoredPosts ==
    [like_count : Counters, repost_count : Counters, quote_count : Counters,
     reply_count : Counters, view_count : Counters, age_hours : Ages]

\* math.log1p(x) raises ValueError (math domain error) for x <= -1
log1p_raises(x) == x <= -1

\* math.log1p(x) in thousandths, for the arguments the model produces
log1p(x) ==
    CASE x = 0 -> 0
      [] x = 8 -> 2197
      [] x = 9 -> 2303
      [] x = 18 -> 2944
      [] x = 20 -> 3045
      [] x = 60 -> 4111
      [] x = 998 -> 6907
      [] x = 999 -> 6908
      [] x = 1008 -> 6917
      [] x = 1998 -> 7600

\* v_cap = 10.0, as the numerator and denominator that min(1.0, x / v_cap)
\* compares: a sum in 1e-4 reaches the cap at 1e5.
V_CAP == 100000

\* Mutant: no decay, a post of any age counts as fresh.
time_decay_Flat(age_hours) == [num |-> 1, den |-> 1]

\* _time_decay: 1.0 / (1.0 + age_hours / 24.0) = 24 / (24 + age_hours)
time_decay(age_hours) == [num |-> 24, den |-> 24 + age_hours]

\* Mutant: the views do not enter base.
base_score_NoViews(p) ==
    5 * log1p(p.like_count) + 8 * log1p(p.repost_count + p.quote_count)
        + 7 * log1p(p.reply_count)

\* lines 25-30: base, in 1e-4
base_score(p) ==
    5 * log1p(p.like_count) + 8 * log1p(p.repost_count + p.quote_count)
        + 7 * log1p(p.reply_count) + 3 * log1p(p.view_count)

\* Mutant: the time decay is applied to virality as it is to velocity.
virality_n_Decayed(p) ==
    LET raw == 4 * log1p(p.like_count) + 10 * log1p(p.repost_count + p.quote_count)
                   + 9 * log1p(p.reply_count) + 2 * log1p(p.view_count)
        decayed == (raw * 24) \div (24 + p.age_hours)
    IN  IF decayed > V_CAP THEN V_CAP ELSE decayed

\* lines 34-43: virality_n = min(1.0, virality / v_cap), in 1e-5
virality_n(p) ==
    LET raw == 4 * log1p(p.like_count) + 10 * log1p(p.repost_count + p.quote_count)
                   + 9 * log1p(p.reply_count) + 2 * log1p(p.view_count)
    IN  IF raw > V_CAP THEN V_CAP ELSE raw

\* lines 31-32, 42: velocity_n = min(1.0, base * decay / v_cap), in 1e-5, as
\* a fraction with a positive denominator
velocity_n(p) ==
    LET decay == time_decay(p.age_hours)
        num == base_score(p) * decay.num
        den == decay.den
        n == IF den < 0 THEN -num ELSE num
        d == IF den < 0 THEN -den ELSE den
    IN  IF n > V_CAP * d THEN [num |-> V_CAP, den |-> 1] ELSE [num |-> n, den |-> d]

\* compute_scores_for_post: the exception it raises ("" for none) and the
\* pair it returns.  The logarithms of base are taken first (line 26-29),
\* then the division of _time_decay (line 20).
compute_scores_for_post(p) ==
    LET nothing == [num |-> 0, den |-> 1]
    IN  IF \/ log1p_raises(p.like_count)
           \/ log1p_raises(p.repost_count + p.quote_count)
           \/ log1p_raises(p.reply_count)
           \/ log1p_raises(p.view_count)
        THEN [raised |-> "ValueError", virality |-> 0, velocity |-> nothing]
        ELSE IF time_decay(p.age_hours).den = 0
        THEN [raised |-> "ZeroDivisionError", virality |-> 0, velocity |-> nothing]
        ELSE [raised |-> "", virality |-> virality_n(p), velocity |-> velocity_n(p)]

\* a < b for fractions with positive denominators
Less(a, b) == a.num * b.den < b.num * a.den

\* A call of compute_scores_for_post; one call is observed.
ScorePost(p) ==
    /\ ~scored.applied
    /\ scored' = [applied |-> TRUE, post |-> p, result |-> compute_scores_for_post(p)]
    /\ UNCHANGED <<execution, scheduler_configs, admin, ranking, stats, alerting, upserts,
                   invoked, collab, jobs>>

NextScore == \E p \in ScoredPosts : ScorePost(p)

SpecScore == Init /\ [][NextScore]_vars

\* ---- scoring properties

\* The scored post at another age.
Aged(p, age) == [p EXCEPT !.age_hours = age]

\* C27: for all non-negative metrics, the virality returned by
\* compute_scores_for_post does not depend on the post's age: two posts with
\* the same five counters and different creation times get the same virality.
C27_ViralityAgeInvariant ==
    (/\ scored.applied
     /\ scored.result.raised = "")
    => \A age \in Ages :
           LET other == compute_scores_for_post(Aged(scored.post, age))
           IN  other.raised = "" => other.virality = scored.result.virality

\* A stale post with positive counters has been scored, and a fresh post
\* with its counters has a different velocity.
C27_Witness ==
    /\ scored.applied
    /\ scored.result.raised = ""
    /\ scored.post.age_hours = 48
    /\ scored.result.virality > 0
    /\ Less(scored.result.velocity,
            compute_scores_for_post(Aged(scored.post, 0)).velocity)

\* The five counters of the post are non-negative.
NonNegative(p) ==
    /\ p.like_count >= 0
    /\ p.repost_count >= 0
    /\ p.quote_count >= 0
    /\ p.reply_count >= 0
    /\ p.view_count >= 0

\* C28: for all non-negative metrics held fixed, velocity strictly decreases
\* as age increases: for any two ages a < b of the same metrics, velocity at
\* age b is strictly lower than velocity at age a.
C28_VelocityStrictlyDecreasing ==
    (/\ scored.applied
     /\ NonNegative(scored.post)
     /\ scored.post.age_hours >= 0)
    => \A b \in Ages :
           b > scored.post.age_hours
           => Less(compute_scores_for_post(Aged(scored.post, b)).velocity,
                   scored.result.velocity)

\* C28, amended: velocity never increases as age increases, and it is
\* strictly lower at the greater age unless base is zero or the velocity at
\* the smaller age is at the cap 1.0.
C28_VelocityDecreasingBelowCap ==
    (/\ scored.applied
     /\ NonNegative(scored.post)
     /\ scored.post.age_hours >= 0)
    => \A b \in Ages :
           b > scored.post.age_hours
           => LET older == compute_scores_for_post(Aged(scored.post, b)).velocity
                  own == scored.result.velocity
              IN  /\ ~Less(own, older)
                  /\ (base_score(scored.post) > 0 /\ Less(own, [num |-> V_CAP, den |-> 1]))
                         => Less(older, own)

\* A post with positive counters has been scored below the cap, and the
\* same counters one day older have a strictly lower velocity.
C28_Witness ==
    /\ scored.applied
    /\ NonNegative(scored.post)
    /\ scored.post.age_hours = 0
    /\ base_score(scored.post) > 0
    /\ Less(scored.result.velocity, [num |-> V_CAP, den |-> 1])
    /\ Less(compute_scores_for_post(Aged(scored.post, 24)).velocity,
            scored.result.velocity)

\* C29: compute_scores_for_post never raises and returns virality and
\* velocity both within [0,1] for every input, including negative or
\* otherwise degenerate counters and any creation time relative to the
\* current clock.
C29_ScoresTotalAndBounded ==
    scored.applied
    => /\ scored.result.raised = ""
       /\ scored.result.virality >= 0
       /\ scored.result.virality <= V_CAP
       /\ scored.result.velocity.num >= 0
       /\ scored.result.velocity.num <= V_CAP * scored.result.velocity.den

\* ------------------------------------------------------------ author baselines
\*
\* _build_author_engagement_stats and _required_engagement over a table of
\* posts given as rows 1 .. n of [author, engagement].

MaxStatPosts == 3
StatEngagements == {0, 20, 60, 200}
StatTables ==
    UNION {[1 .. n -> [author : Authors, engagement : StatEngagements]] :
               n \in 1 .. MaxStatPosts}

\* The posts of the author of row k, and the author's average as a fraction.
own_rows(rows, k) == {j \in DOMAIN rows : rows[j].author = rows[k].author}
author_avg(rows, k) ==
    [num |-> SumEngagement(rows, own_rows(rows, k)),
     den |-> Cardinality(own_rows(rows, k))]

\* The statistics of a table are built and the required engagement of each
\* of its posts is taken; one table is observed.
BuildStats(rows) ==
    /\ ~stats.applied
    /\ stats' = [applied |-> TRUE, rows |-> rows]
    /\ UNCHANGED <<execution, scheduler_configs, admin, ranking, scored, alerting, upserts,
                   invoked, collab, jobs>>

NextStats == \E rows \in StatTables : BuildStats(rows)

SpecStats == Init /\ [][NextStats]_vars

\* The ends of the scale band: max(1, round(base_required * scale)).
required_min ==
    Max(1, round_half_even(Max(1, TRENDING_MIN_ENGAGEMENT_MIX) * SCALE_MIN_NUM,
                           SCALE_MIN_DEN))
required_max ==
    Max(1, round_half_even(Max(1, TRENDING_MIN_ENGAGEMENT_MIX) * SCALE_MAX_NUM,
                           SCALE_MAX_DEN))

\* C30: the per-author required engagement is non-decreasing in the author's
\* historical average engagement and always lies between
\* max(1, round(base_floor x scale_min)) and max(1, round(base_floor x
\* scale_max)): a post by a higher-baseline author needs an engagement total
\* at least as high as a post by a lower-baseline author to qualify.
C30_RequiredMonotoneInBand ==
    stats.applied
    => \A k \in DOMAIN stats.rows :
           /\ required_engagement(stats.rows, k) >= required_min
           /\ required_engagement(stats.rows, k) <= required_max
           /\ \A j \in DOMAIN stats.rows :
                  ~Less(author_avg(stats.rows, j), author_avg(stats.rows, k))
                  => required_engagement(stats.rows, j)
                         >= required_engagement(stats.rows, k)

\* A table in which a low-baseline author is held at the lower end of the
\* band and a high-baseline author at the upper end.
C30_Witness ==
    /\ stats.applied
    /\ \E k, j \in DOMAIN stats.rows :
           /\ Less(author_avg(stats.rows, k), author_avg(stats.rows, j))
           /\ required_engagement(stats.rows, k) = required_min
           /\ required_engagement(stats.rows, j) = required_max

\* ------------------------------------------------------------ alerts
\*
\* job_ingest_and_rank after its ingestion: rank_and_mark, then the alert
\* of lines 106-277, taken as one step.  A post of the table carries its
\* engagement as likes; no post matches the priority terms or a trending
\* hashtag.  An alert is the message handed to send_telegram_message.

RECENCY_BONUS_MINUTES == 10
\* recency_bonus_amount = 0.05, in 1e-5
RECENCY_BONUS_AMOUNT == 5000
\* the threshold 1e-3 of line 145, in 1e-5
ALERT_DEDUP == 100
RECENT_HOURS == 24
\* top_limit of the job: the default, and a limit set in the parameters
TopLimits == {1, 10}

\* virality_score as rank_and_mark stores it (lines 142-150, 189): the
\* virality of the counters, and the recency bonus for a post created at
\* most recency_bonus_minutes ago.
virality_score(p, now) ==
    LET v == virality_n([like_count |-> p.engagement, repost_count |-> 0,
                         quote_count |-> 0, reply_count |-> 0, view_count |-> 0,
                         age_hours |-> (now - p.created_at) \div 3600])
        bonus == IF /\ RECENCY_BONUS_MINUTES > 0
                    /\ RECENCY_BONUS_AMOUNT > 0
                    /\ now - p.created_at <= 60 * RECENCY_BONUS_MINUTES
                 THEN RECENCY_BONUS_AMOUNT ELSE 0
    IN  IF v + bonus > V_CAP THEN V_CAP ELSE v + bonus

\* ORDER BY trending DESC, virality_score DESC: row a comes before row b
precedes(a, b, now) ==
    \/ a.trending /\ ~b.trending
    \/ a.trending = b.trending /\ virality_score(a, now) > virality_score(b, now)

\* top_conversations(limit, min_created_at): the key sets the query can
\* return; rows that tie in the order come in any order.
top_conversations(rows, now, limit) ==
    LET recent == {k \in DOMAIN rows :
                      rows[k].created_at >= now - 3600 * RECENT_HOURS}
        size == IF Cardinality(recent) < limit THEN Cardinality(recent) ELSE limit
    IN  {S \in SUBSET recent :
            /\ Cardinality(S) = size
            /\ \A a \in S, b \in recent \ S : ~precedes(rows[b], rows[a], now)}

\* last_alerted_at of a post, None while the post was never alerted
last_alerted_at(marks, k) == IF k \in DOMAIN marks THEN marks[k].at ELSE NoTime

\* lines 141-146: last_alerted_virality is set and within 1e-3 of the score
unchanged_score(marks, k, v) ==
    /\ k \in DOMAIN marks
    /\ marks[k].virality - v < ALERT_DEDUP
    /\ v - marks[k].virality < ALERT_DEDUP

\* Mutant: a post that was alerted before is taken again.
in_batch_NoDedup(rows, marks, k, now, cutoff) ==
    /\ rows[k].trending
    /\ rows[k].trending_since # NoTime
    /\ rows[k].trending_since >= cutoff

\* lines 131-155: the post passes the tests of the alert loop
in_batch(rows, marks, k, now, cutoff) ==
    /\ rows[k].trending
    /\ last_alerted_at(marks, k) = NoTime
    /\ rows[k].trending_since # NoTime
    /\ rows[k].trending_since >= cutoff
    /\ ~unchanged_score(marks, k, virality_score(rows[k], now))

\* lines 111-125: the posts max(_recent_posts(), key=_total_engagement) can
\* return: never alerted, of the highest engagement of the list, and the
\* first of these in the order of the list.
fallback_candidates(rows, marks, top, now) ==
    LET open == {k \in top : last_alerted_at(marks, k) = NoTime}
        best == {k \in open : \A j \in open : rows[j].engagement <= rows[k].engagement}
    IN  {k \in best : \A j \in best : ~precedes(rows[j], rows[k], now)}

\* Mutant: the fallback is sent whenever there is a candidate.
fallback_sent_Always(payload_posts, candidate) == candidate # {}

\* lines 220, 230: elif fallback_candidate is not None
fallback_sent(payload_posts, candidate) == payload_posts = {} /\ candidate # {}

\* The marks of the posts of an alert: last_alerted_at, last_alerted_virality
marked(rows, marks, keys, now) ==
    [k \in DOMAIN marks \cup keys |->
        IF k \in keys
        THEN [at |-> now, virality |-> virality_score(rows[k], now)]
        ELSE marks[k]]

\* job_ingest_and_rank from rank_and_mark on, with the list top that
\* top_conversations returns and the fallback candidate (none: {}).
RankAndAlert(recent_minutes, top_limit) ==
    LET now == clock
        after == ranked(posts, now, cutoff_of(recent_minutes, now))
        cutoff == now - 60 * recent_minutes
    IN  \E top \in top_conversations(after, now, top_limit) :
        \E candidate \in
               IF fallback_candidates(after, alerted, top, now) = {}
               THEN {{}}
               ELSE {{k} : k \in fallback_candidates(after, alerted, top, now)} :
            LET payload_posts ==
                    {k \in top : in_batch(after, alerted, k, now, cutoff)}
                fallback == IF fallback_sent(payload_posts, candidate)
                            THEN candidate ELSE {}
            IN  /\ sent.n < MaxAlertJobs
                /\ RankPass(recent_minutes)
                /\ alerted' = marked(after, alerted, payload_posts \cup fallback, now)
                /\ sent' = [n |-> sent.n + 1,
                            now |-> now,
                            top |-> top,
                            candidate |-> candidate,
                            full |-> payload_posts,
                            fallback |-> fallback,
                            messages |-> (IF payload_posts # {} THEN 1 ELSE 0)
                                           + (IF fallback # {} THEN 1 ELSE 0),
                            outcome |-> IF payload_posts # {} THEN "alerts_sent"
                                        ELSE IF fallback # {} THEN "fallback_alert"
                                        ELSE "no_alerts"]
                /\ UNCHANGED <<execution, scheduler_configs, admin, scored, stats,
                               upserts, invoked, collab, jobs>>

\* The job and the ingestion that feeds it; a trending flag without
\* trending_since, as the stream writes it, does not survive the rank_and_mark
\* that begins the step.
NextAlert ==
    \/ \E m \in RecentMinutes, n \in TopLimits : RankAndAlert(m, n)
    \/ \E k \in PostKeys : \E d \in Items(k) :
           IngestUpsert(k, d.author, d.created_at, d.engagement)
    \/ RankTick

SpecAlert == Init /\ [][NextAlert]_vars

\* ---- alert properties

\* A step of job_ingest_and_rank.
JobStep == sent'.n # sent.n

\* The posts of the alert of the last job, full or fallback.
Alerted(s) == s.full \cup s.fallback

\* C22: re-running the ranking-and-alert job with unchanged post scores
\* produces no duplicate alert: a post whose last_alerted_virality is
\* within 1e-3 of its current virality is never included in a later alert
\* batch.
C22_UnchangedScoreNotAlertedAgain ==
    [][JobStep =>
          \A k \in DOMAIN alerted :
              LET v == virality_score(posts'[k], sent'.now)
              IN  (alerted[k].virality - v < ALERT_DEDUP
                      /\ v - alerted[k].virality < ALERT_DEDUP)
                  => k \notin Alerted(sent')]_vars

\* A later job found a post that was alerted before trending, in its list
\* and with the score of its alert, and left it out.
C22_Witness ==
    \E k \in DOMAIN alerted :
        /\ alerted[k].at < sent.now
        /\ k \in sent.top
        /\ k \in DOMAIN posts
        /\ posts[k].trending
        /\ posts[k].trending_since # NoTime
        /\ alerted[k].virality = virality_score(posts[k], sent.now)
        /\ k \notin Alerted(sent)

\* C23: a trending post among the top-N that was alerted before is alerted
\* again in a later cycle when its current virality differs from its stored
\* last_alerted_virality by at least 1e-3.
C23_ChangedScoreAlertedAgain ==
    [][JobStep =>
          \A k \in DOMAIN alerted :
              LET v == virality_score(posts'[k], sent'.now)
              IN  (/\ k \in sent'.top
                   /\ posts'[k].trending
                   /\ posts'[k].trending_since # NoTime
                   /\ posts'[k].trending_since >= cycle'.cutoff
                   /\ (alerted[k].virality - v >= ALERT_DEDUP
                          \/ v - alerted[k].virality >= ALERT_DEDUP))
                  => k \in sent'.full]_vars

\* The posts created within the last 24 hours that have never been alerted.
NeverAlertedRecent(rows, marks, now) ==
    {k \in DOMAIN rows :
        /\ rows[k].created_at >= now - 3600 * RECENT_HOURS
        /\ last_alerted_at(marks, k) = NoTime}

\* C24: when no post qualifies for a full alert in a cycle, the fallback
\* alert is emitted for the post with the highest raw engagement total
\* among all posts created within the last 24 hours that have never been
\* alerted.
C24_FallbackHighestEngagement ==
    [][JobStep =>
          LET open == NeverAlertedRecent(posts', alerted, sent'.now)
          IN  (sent'.full = {} /\ open # {})
              => \E k \in open :
                     /\ sent'.fallback = {k}
                     /\ \A j \in open :
                            posts'[j].engagement <= posts'[k].engagement]_vars

\* C25: every ranking cycle that completes emits a non-empty signal: if no
\* post qualifies for a full alert batch, a fallback monitoring alert is
\* emitted in that same cycle.  A fallback alert is about a post: the cycles
\* taken are those in which a post of the last 24 hours that was never
\* alerted exists.
C25_SignalEveryCycle ==
    [][JobStep =>
          ((/\ sent'.full = {}
            /\ NeverAlertedRecent(posts', alerted, sent'.now) # {})
           => sent'.fallback # {})]_vars

\* C26: no ranking cycle emits both a full alert batch and a fallback alert:
\* at most one trending-alert notification is sent per cycle, and the
\* fallback is sent only when the full batch is empty.
C26_FullOrFallbackNeverBoth ==
    [][JobStep =>
          /\ sent'.messages <= 1
          /\ (sent'.fallback # {} => sent'.full = {})]_vars

\* A job has sent a full batch while a post of its list was a fallback
\* candidate, and no fallback alert went out.
C26_Witness ==
    /\ sent.outcome = "alerts_sent"
    /\ sent.full # {}
    /\ sent.candidate # {}
    /\ sent.fallback = {}
    /\ sent.messages = 1

\* C32: two different job configs never block each other.  The answer of an
\* acquire for config A is fixed by A's own unexpired leases (those the
\* transaction sees) and A's limit, whatever leases other configs hold; and
\* the purge, the commit of an acquire and the release of an execution of A
\* leave the set of leases of every other config as it was, in the store and
\* in the pending deletes of the transaction.
C32_ConfigsIndependent ==
    [][\A e \in Execs :
          /\ (pc[e] = "acq_count" /\ pc'[e] = "acq_commit")
                 => granted'[e] =
                        (Cardinality({l \in Held(config[e].id) \ purged[e] :
                                          l.expires_at > lock_now[e]})
                             < LockLimit(config[e]))
          /\ (pc[e] \in {"acq_purge", "acq_commit", "release"} /\ pc'[e] # pc[e])
                 => /\ \A c \in ConfigIds \ {config[e].id} :
                           {l \in scheduler_locks' : l.config_id = c} = Held(c)
                    /\ \A l \in purged'[e] : l.config_id = config[e].id]_vars

\* An execution of config 1 (limit 1) was granted its lease while config 2
\* held an unexpired lease acquired by an earlier execution.
C32_Witness ==
    \E e \in Execs :
        /\ pc[e] = "handler"
        /\ config[e].id = 1
        /\ \E l \in Unexpired(1) : l.lock_token = e
        /\ \E l \in Unexpired(2) : l.acquired_at <= lock_now[e] /\ l.lock_token < e

\* C38: delete_scheduler_config(id) removes exactly the config with that id:
\* after a delete that found the row, the table is the table before without
\* that row; every other config is unchanged and no row is created, also when
\* the deleted config was the last one.
C38_DeleteRemovesExactlyOne ==
    [][(/\ last_op'.seq # last_op.seq
        /\ last_op'.name = "delete"
        /\ last_op'.result = "ok")
           => scheduler_configs' =
                  [c \in DOMAIN scheduler_configs \ {last_op'.config_id} |->
                      scheduler_configs[c]]]_vars

\* C39: an execution that starts while its config is disabled or deleted
\* never reaches the handler.  The first step of an execution either returns
\* at once, leaving the store and the failure monitor as they were, or goes
\* on to the acquire with the config as it is persisted at that moment, which
\* is enabled; and an execution that returned because the config was missing
\* or disabled has no lease, no job_runs row and no entry in the monitor.
C39_DisabledNeverInvoked ==
    [][\A e \in Execs :
          /\ (pc[e] = "idle" /\ pc'[e] # "idle")
                 => \/ /\ pc'[e] = "done"
                       /\ outcome'[e] \in {"return_disabled", "return_unknown_job"}
                       /\ UNCHANGED <<store, monitor, history>>
                    \/ /\ pc'[e] = "acq_begin"
                       /\ config'[e].id \in DOMAIN scheduler_configs
                       /\ config'[e] = scheduler_configs[config'[e].id]
                       /\ config'[e].enabled
          /\ outcome'[e] = "return_disabled"
                 => /\ \A l \in scheduler_locks' : l.lock_token # e
                    /\ \A i \in DOMAIN job_runs' : job_runs'[i].correlation_id # e
                    /\ \A i \in DOMAIN tracked' : tracked'[i].by # e
                    /\ e \notin reclaimed']_vars

\* The administration paused or deleted a config, an execution returned at
\* its first step because the config it was started with was disabled or
\* gone, and another execution of an enabled config holds its lease.
C39_Witness ==
    /\ last_op.name \in {"pause", "delete"}
    /\ last_op.result = "ok"
    /\ last_op.config_id \in DOMAIN scheduler_configs
           => ~scheduler_configs[last_op.config_id].enabled
    /\ \E e \in Execs : outcome[e] = "return_disabled"
    /\ \E e \in Execs : Holding(e)

\* C36: also when the failure-tracking steps of several failed executions of
\* one job kind interleave, no two escalations of that job kind are emitted
\* less than the cooldown (JOB_FAILURE_ALERT_COOLDOWN, 30 minutes) apart.
C36_ConcurrentEscalationsApart ==
    \A k \in JOB_HANDLERS :
        \A n, m \in Escalations(k) :
            n # m => \/ n.at - m.at >= JOB_FAILURE_ALERT_COOLDOWN
                     \/ m.at - n.at >= JOB_FAILURE_ALERT_COOLDOWN

\* ---- the post without engagement

\* The post with all five counters at zero, at the given age.
ZeroPost(age) ==
    [like_count |-> 0, repost_count |-> 0, quote_count |-> 0,
     reply_count |-> 0, view_count |-> 0, age_hours |-> age]

\* C35: a post created now with all five counters at zero has virality 0
\* and velocity 0; and a post with non-negative counters of which at least
\* one is positive has, at any age from 0 on, a strictly higher virality and
\* a strictly higher velocity than the all-zero post of that age.
C35_ZeroPostIsTheFloor ==
    (/\ scored.applied
     /\ NonNegative(scored.post)
     /\ scored.post.age_hours >= 0)
    => LET zero == compute_scores_for_post(ZeroPost(scored.post.age_hours))
       IN  /\ scored.result.raised = ""
           /\ scored.post = ZeroPost(0)
                  => /\ scored.result.virality = 0
                     /\ scored.result.velocity.num = 0
           /\ scored.post # ZeroPost(scored.post.age_hours)
                  => /\ scored.result.virality > zero.virality
                     /\ Less(zero.velocity, scored.result.velocity)

\* A post two days old whose only engagement is its views has been scored:
\* its velocity is above that of the all-zero post of the same age.
C35_Witness ==
    /\ scored.applied
    /\ scored.post = [ZeroPost(48) EXCEPT !.view_count = 9]
    /\ scored.result.virality > 0
    /\ Less(compute_scores_for_post(ZeroPost(48)).velocity, scored.result.velocity)

\* ------------------------------------------------------------ upsert of posts
\*
\* ingest.py upsert_post over the rows of the posts table.  A row is
\* (platform, post_id, like_count); like_count stands for the five counters,
\* which the function treats alike.  The data of a call carries the key and a
\* like_count, NotSupplied when the key like_count is missing from the
\* dictionary.  The session of the calls is one: a row added by a call is
\* seen by the select of the next.

MaxUpserts == 3
Platforms == {"x", "reddit"}
PostIds == {"1", "2"}
NotSupplied == -1
IncomingCounts == {NotSupplied, 0, 5}
UpsertData == [platform : Platforms, post_id : PostIds, like_count : IncomingCounts]

\* Mutant: the select finds no row.
matching_posts_None(rows, data) == {}

\* select(Post).where(Post.platform == ..., Post.post_id == ...), lines 36-40,
\* as the positions of the rows it finds
matching_posts(rows, data) ==
    {i \in DOMAIN rows :
        rows[i].platform = data.platform /\ rows[i].post_id = data.post_id}

\* The unique index ix_platform_postid (models.py lines 50-52) rejects the
\* flush of a row whose key is in the table.
index_rejects(rows, row) ==
    \E i \in DOMAIN rows :
        rows[i].platform = row.platform /\ rows[i].post_id = row.post_id

\* upsert_post: the rows after the call, the position of the row returned
\* (0 for none) and the exception raised ("" for none).
upsert_post_rows(rows, data) ==
    LET found == matching_posts(rows, data)
        row == [platform |-> data.platform, post_id |-> data.post_id,
                like_count |-> IF data.like_count = NotSupplied THEN 0
                               ELSE data.like_count]
    IN  IF Cardinality(found) > 1
        THEN [rows |-> rows, returned |-> 0, raised |-> "MultipleResultsFound"]
        ELSE IF found # {}
        THEN LET i == CHOOSE j \in found : TRUE
             IN  [rows |-> IF data.like_count = NotSupplied THEN rows
                           ELSE [rows EXCEPT ![i].like_count = data.like_count],
                  returned |-> i, raised |-> ""]
        ELSE IF index_rejects(rows, row)
        THEN [rows |-> rows, returned |-> 0, raised |-> "IntegrityError"]
        ELSE [rows |-> Append(rows, row), returned |-> Len(rows) + 1, raised |-> ""]

\* A call of upsert_post.
UpsertPost(data) ==
    /\ upserts.n < MaxUpserts
    /\ LET r == upsert_post_rows(upserts.rows, data)
       IN  upserts' = [n |-> upserts.n + 1, rows |-> r.rows, returned |-> r.returned,
                       raised |-> r.raised, data |-> data]
    /\ UNCHANGED <<execution, scheduler_configs, admin, ranking, scored, stats,
                   alerting, invoked, collab, jobs>>

NextUpsert == \E data \in UpsertData : UpsertPost(data)

SpecUpsert == Init /\ [][NextUpsert]_vars

\* C33: after any sequence of upsert_post calls there is at most one row per
\* (platform, post id); a call for a key that is in the table raises nothing,
\* adds no row and returns the row of that key, with the counter set to the
\* incoming value when one is supplied and every other row as it was.
C33_OnePostPerKey ==
    [][upserts'.n # upserts.n
          => LET rows == upserts.rows
                 after == upserts'.rows
                 data == upserts'.data
                 same(i) == /\ rows[i].platform = data.platform
                            /\ rows[i].post_id = data.post_id
             IN  /\ \A i, j \in DOMAIN after :
                        (/\ after[i].platform = after[j].platform
                         /\ after[i].post_id = after[j].post_id) => i = j
                 /\ \A i \in DOMAIN rows :
                        same(i)
                        => /\ upserts'.raised = ""
                           /\ Len(after) = Len(rows)
                           /\ upserts'.returned = i
                           /\ after[i].like_count =
                                  IF data.like_count = NotSupplied
                                  THEN rows[i].like_count ELSE data.like_count
                           /\ \A j \in DOMAIN rows \ {i} : after[j] = rows[j]]_vars

\* Post x:1 was inserted with 0 likes, another post was inserted after it, and
\* a third call for x:1 with 5 likes returned the first row, now with 5 likes.
C33_Witness ==
    /\ upserts.n = 3
    /\ Len(upserts.rows) = 2
    /\ upserts.data = [platform |-> "x", post_id |-> "1", like_count |-> 5]
    /\ upserts.returned = 1
    /\ upserts.rows[1] = [platform |-> "x", post_id |-> "1", like_count |-> 5]
    /\ upserts.rows[2].platform = "reddit"

\* ------------------------------------------------------------ handler parameters
\*
\* _execute_configured_job, lines 525-529: the keyword arguments the handler
\* is called with.  config.parameters is a map from parameter names to
\* values (None and the empty map are the same to "config.parameters or {}",
\* both are the empty map here); config.growth_profile_id is the id of the
\* linked targeting profile, NoProfile for None.  NoProfile as a value of the
\* map is an explicit None.

NoProfile == 0
ParameterKeys == {"growth_profile_id", "limit", "max_x"}
ParameterValues == {NoProfile, 1, 2}
ParameterMaps == UNION {[keys -> ParameterValues] : keys \in SUBSET ParameterKeys}
ProfileIds == {NoProfile, 1, 2}

\* Mutant: the linked profile is written over the explicit parameter.
handler_params_ProfileWins(parameters, growth_profile_id) ==
    IF growth_profile_id # NoProfile
    THEN [k \in DOMAIN parameters \cup {"growth_profile_id"} |->
             IF k = "growth_profile_id" THEN growth_profile_id ELSE parameters[k]]
    ELSE parameters

\* params = dict(config.parameters or {}); the linked profile is added when
\* it is set and the key is not in params (lines 526-528)
handler_params(parameters, growth_profile_id) ==
    IF growth_profile_id # NoProfile /\ "growth_profile_id" \notin DOMAIN parameters
    THEN [k \in DOMAIN parameters \cup {"growth_profile_id"} |->
             IF k = "growth_profile_id" THEN growth_profile_id ELSE parameters[k]]
    ELSE parameters

\* handler(**params), line 529; one call is observed.
InvokeHandler(parameters, growth_profile_id) ==
    /\ ~invoked.applied
    /\ invoked' = [applied |-> TRUE, parameters |-> parameters,
                   growth_profile_id |-> growth_profile_id,
                   params |-> handler_params(parameters, growth_profile_id)]
    /\ UNCHANGED <<execution, scheduler_configs, admin, ranking, scored, stats,
                   alerting, upserts, collab,
                   jobs>>

NextParams ==
    \E parameters \in ParameterMaps, id \in ProfileIds : InvokeHandler(parameters, id)

SpecParams == Init /\ [][NextParams]_vars

\* C34: the handler is invoked with the config's parameter map: every
\* parameter of the map is passed with the value the map gives it, also
\* growth_profile_id when the map sets it, and nothing else is passed but the
\* linked profile id, which is passed exactly when the config has a linked
\* profile and the map has no growth_profile_id key.
C34_ExplicitParameterOverrides ==
    invoked.applied
    => LET explicit == invoked.parameters
           passed == invoked.params
       IN  /\ \A k \in DOMAIN explicit : k \in DOMAIN passed /\ passed[k] = explicit[k]
           /\ DOMAIN passed \subseteq DOMAIN explicit \cup {"growth_profile_id"}
           /\ "growth_profile_id" \notin DOMAIN explicit
                  => IF invoked.growth_profile_id = NoProfile
                     THEN "growth_profile_id" \notin DOMAIN passed
                     ELSE /\ "growth_profile_id" \in DOMAIN passed
                          /\ passed["growth_profile_id"] = invoked.growth_profile_id

\* A config linked to profile 1 whose map sets growth_profile_id to 2 and
\* limit to 1: the handler was called with profile 2.
C34_Witness ==
    /\ invoked.applied
    /\ invoked.growth_profile_id = 1
    /\ DOMAIN invoked.parameters = {"growth_profile_id", "limit"}
    /\ invoked.parameters["growth_profile_id"] = 2
    /\ invoked.params["growth_profile_id"] = 2
    /\ invoked.params["limit"] = 1

\* ------------------------------------------------------------ external collaborators
\*
\* The handlers (scheduler.py job_ingest_and_rank, job_generate_replies_for_trending,
\* job_daily_ideas) and what reaches them when an external collaborator
\* fails: the X and Reddit clients, the reply-draft and the idea generation
\* of generator.py, send_telegram_message, fetch_trending_hashtags.  A
\* handler has try / finally blocks and no except: an exception that a
\* collaborator lets out leaves the handler.

Collaborators ==
    {"ingestion_source", "reply_generation", "idea_generation",
     "notification_send", "trending_hashtags"}

\* The failure is caught on the way to the handler and an empty result or
\* False is returned: search_recent_tweets (x_client.py lines 123-130),
\* fetch_reddit_trending (reddit_client.py lines 56-78), send_telegram_message
\* (notifier.py lines 33-36), fetch_trending_hashtags (scheduler.py lines
\* 94-98).  craft_replies_for_post and generate_daily_ideas call the
\* completion API outside their try blocks under @retry (generator.py lines
\* 71, 168, 202, 244): after three attempts tenacity raises RetryError.
absorbed(c) == c \in {"ingestion_source", "notification_send", "trending_hashtags"}

\* The collaborators a handler calls: drafts are requested for a post without
\* reply_suggestions (scheduler.py lines 157-161, 322-324), ideas are
\* generated when the day has no Idea row (generator.py lines 296-301).
called(job_id, drafts_missing, ideas_today) ==
    CASE job_id = "ingest_rank" ->
             {"ingestion_source", "trending_hashtags", "notification_send"}
                 \cup (IF drafts_missing THEN {"reply_generation"} ELSE {})
      [] job_id = "gen_replies" ->
             IF drafts_missing THEN {"reply_generation"} ELSE {}
      [] OTHER ->
             {"notification_send"}
                 \cup (IF ideas_today THEN {} ELSE {"idea_generation"})

\* An exception leaves the handler.
handler_raises(job_id, failing, drafts_missing, ideas_today) ==
    \E c \in failing \cap called(job_id, drafts_missing, ideas_today) : ~absorbed(c)

\* _execute_configured_job, lines 523-537: the handler runs while the
\* collaborators of failing are out of order.
HandlerCall(e, failing, drafts_missing, ideas_today) ==
    /\ pc[e] = "handler"
    /\ LET raises == handler_raises(config[e].job_id, failing, drafts_missing,
                                    ideas_today)
       IN  /\ status' = [status EXCEPT ![e] = IF raises THEN "error" ELSE "success"]
           /\ exc' = [exc EXCEPT ![e] = raises]
           /\ collab' = [by |-> e, job_id |-> config[e].job_id, failing |-> failing,
                         drafts_missing |-> drafts_missing,
                         ideas_today |-> ideas_today, raised |-> raises]
    /\ pc' = [pc EXCEPT ![e] = "record"]
    /\ UNCHANGED <<clock, store, monitor, history, started, config, lock_token,
                   lock_now, purged, granted, track_now, outcome>>
    /\ UNCHANGED <<admin, ranking, scored, stats, alerting, upserts, invoked, jobs>>

\* The executions of the configs, one at a time, with handlers that fail
\* only through their collaborators; the paused config of the daily ideas
\* can be resumed.
NextCollab ==
    \/ \E c \in ConfigIds, action \in {"pause", "resume"} : ToggleJob(c, action)
    \/ \E e \in 1 .. MaxCfgExecs, c \in ConfigIds : ExecStart(e, c)
    \/ \E e \in Execs : AcquireBegin(e)
    \/ \E e \in Execs : AcquirePurge(e)
    \/ \E e \in Execs : AcquireCount(e)
    \/ \E e \in Execs : AcquireCommit(e)
    \/ \E e \in Execs, failing \in SUBSET Collaborators,
          drafts_missing \in BOOLEAN, ideas_today \in BOOLEAN :
           HandlerCall(e, failing, drafts_missing, ideas_today)
    \/ \E e \in Execs : RecordJobRun(e)
    \/ \E e \in Execs : TrackBegin(e)
    \/ \E e \in Execs : TrackCheck(e)
    \/ \E e \in Execs : Release(e)

SpecCollab == Init /\ [][NextCollab]_vars

\* C31: a failure of an external collaborator never makes a scheduled job
\* fail: whichever collaborators are out of order, the handler completes,
\* the JobRun of the execution has status success and the counter of the
\* failure monitor is not incremented.
C31_CollaboratorFailureAbsorbed ==
    /\ ~collab.raised
    /\ \A i \in DOMAIN job_runs : job_runs[i].status = "success"
    /\ \A k \in JOB_HANDLERS : job_failure_counts[k] = 0

\* ------------------------------------------------------------ overlapping alert jobs
\*
\* job_ingest_and_rank, lines 99-277, as the steps of a run that touch the
\* store or the sender, for runs that overlap (two configs of the kind
\* ingest_rank, or one config with concurrency_limit above 1).  The posts of
\* top_conversations are detached objects (session_scope has
\* expire_on_commit=False): the run tests the fields as they were read.

Jobs == 1 .. MaxJobs
\* settings.alert_recency_minutes, the window of a run whose parameters name
\* none; the clock stands still while the runs overlap.
ALERT_RECENCY_MINUTES == 30

\* The run j with some of its locals changed.
WithLocals(j, changes) ==
    [jobs EXCEPT !.run[j] = [f \in DOMAIN @ |->
                                IF f \in DOMAIN changes THEN changes[f] ELSE @[f]]]

\* lines 99-125: rank_and_mark, then now, cutoff, the list of
\* top_conversations with the fields of its posts, and the fallback candidate.
JobRead(j, recent_minutes, top_limit) ==
    LET now == clock
        after == ranked(posts, now, cutoff_of(recent_minutes, now))
    IN  /\ j = jobs.started + 1
        /\ jobs.run[j].pc = "idle"
        /\ RankPass(recent_minutes)
        /\ \E top \in top_conversations(after, now, top_limit) :
           \E candidate \in
                  IF fallback_candidates(after, alerted, top, now) = {}
                  THEN {{}}
                  ELSE {{k} : k \in fallback_candidates(after, alerted, top, now)} :
               jobs' = [WithLocals(j, [pc |-> "loop", now |-> now,
                                     cutoff |-> now - 60 * recent_minutes,
                                     rows |-> [k \in top |-> after[k]],
                                     seen |-> [k \in top \cap DOMAIN alerted |->
                                                  alerted[k]],
                                     top |-> top, candidate |-> candidate])
                        EXCEPT !.started = j]
        /\ UNCHANGED <<execution, scheduler_configs, admin, scored, stats, alerting,
                       upserts, invoked, collab>>

\* lines 130-217: the loop over the list in one session; the posts that pass
\* the tests are put into the payload and their rows get last_alerted_at and
\* last_alerted_virality; the session commits.  Then line 220 or 230 chooses
\* the message, or there is none (line 275).
JobMark(j) ==
    LET run == jobs.run[j]
        payload_posts == {k \in run.top :
                             in_batch(run.rows, run.seen, k, run.now, run.cutoff)}
    IN  /\ run.pc = "loop"
        /\ alerted' = marked(run.rows, alerted, payload_posts, run.now)
        /\ jobs' = WithLocals(j, [pc |-> IF payload_posts # {} THEN "send"
                                       ELSE IF fallback_sent(payload_posts, run.candidate)
                                       THEN "send_fallback" ELSE "done",
                                payload |-> payload_posts,
                                marked |-> payload_posts])
        /\ UNCHANGED <<execution, scheduler_configs, admin, ranking, scored, stats,
                       sent, upserts, invoked, collab>>

\* A message handed to send_telegram_message, and the value it returned.
Emitted(j, kind, keys, delivered) ==
    Append(jobs.emitted, [job |-> j, kind |-> kind, posts |-> keys,
                          delivered |-> delivered])

\* lines 221-229: the full batch is sent; the value of the sender is dropped.
JobSend(j, delivered) ==
    /\ jobs.run[j].pc = "send"
    /\ jobs' = [WithLocals(j, [pc |-> "done"])
                EXCEPT !.emitted = Emitted(j, "full", jobs.run[j].payload, delivered)]
    /\ UNCHANGED <<execution, scheduler_configs, admin, ranking, scored, stats,
                   alerting, upserts, invoked, collab>>

\* lines 236-257: the fallback message is sent; the value of the sender is
\* dropped.
JobSendFallback(j, delivered) ==
    /\ jobs.run[j].pc = "send_fallback"
    /\ jobs' = [WithLocals(j, [pc |-> "mark_fallback"])
                EXCEPT !.emitted = Emitted(j, "fallback", jobs.run[j].candidate,
                                           delivered)]
    /\ UNCHANGED <<execution, scheduler_configs, admin, ranking, scored, stats,
                   alerting, upserts, invoked, collab>>

\* lines 258-272: the row of the fallback candidate is marked in a session
\* of its own.
JobMarkFallback(j) ==
    LET run == jobs.run[j]
    IN  /\ run.pc = "mark_fallback"
        /\ alerted' = marked(run.rows, alerted, run.candidate, run.now)
        /\ jobs' = WithLocals(j, [pc |-> "done", marked |-> run.candidate])
        /\ UNCHANGED <<execution, scheduler_configs, admin, ranking, scored, stats,
                       sent, upserts, invoked, collab>>

NextJobs ==
    \/ \E k \in PostKeys : \E d \in Items(k) :
           IngestUpsert(k, d.author, d.created_at, d.engagement)
    \/ \E j \in Jobs, n \in TopLimits : JobRead(j, ALERT_RECENCY_MINUTES, n)
    \/ \E j \in Jobs : JobMark(j)
    \/ \E j \in Jobs, delivered \in BOOLEAN : JobSend(j, delivered)
    \/ \E j \in Jobs, delivered \in BOOLEAN : JobSendFallback(j, delivered)
    \/ \E j \in Jobs : JobMarkFallback(j)

SpecJobs == Init /\ [][NextJobs]_vars

\* ---- properties of the overlapping alert jobs

\* C37: each post is included in at most one emitted alert, full or
\* fallback, over its lifetime, also when two runs of the ranking job
\* overlap: no two delivered messages contain the same post.
C37_PostAlertedAtMostOnce ==
    \A a, b \in DOMAIN jobs.emitted :
        (/\ a # b
         /\ jobs.emitted[a].delivered
         /\ jobs.emitted[b].delivered)
        => jobs.emitted[a].posts \cap jobs.emitted[b].posts = {}

\* C40: a post is marked alerted only in a cycle whose alert containing it
\* was actually delivered: every post a finished run has marked is in a
\* message of that run for which the sender reported success.
C40_MarkedOnlyWhenDelivered ==
    \A j \in Jobs :
        jobs.run[j].pc = "done"
        => \A k \in jobs.run[j].marked :
               \E i \in DOMAIN jobs.emitted :
                   /\ jobs.emitted[i].job = j
                   /\ jobs.emitted[i].delivered
                   /\ k \in jobs.emitted[i].posts
====
